---- MODULE Spec2Model ----
(***************************************************************************)
(* Model of the BOOTH client of Booth_File_Organizer                        *)
(* (src/src-tauri/src/booth_client.rs): the shared rate limiter             *)
(* (apply_rate_limit), the two retry loops (fetch_with_retry and            *)
(* download_thumbnail) and the resolver (get_product_info).                 *)
(*                                                                         *)
(* Tasks are asynchronous callers that share one BoothClient through an     *)
(* Arc (lib.rs:32,53).  Each action is one stretch of code between two      *)
(* suspension points (an .await or a mutex acquisition).  Time is a         *)
(* discrete clock in milliseconds that advances by tick; a sleep returns    *)
(* at any clock value at or after its deadline.                            *)
(***************************************************************************)
EXTENDS Integers, Sequences, FiniteSets, TLC

\* ---------------------------------------------------------------- bounds
NumTasks == 2
TickFine == 500
TickCoarse == 1000
MaxTimeConcurrent == 2000
MaxTimeSequential == 8000
MaxTimePair == 16000
MaxTimeInfo == 14000

Tasks == 1..NumTasks

\* ------------------------------------------------------ program constants
MAX_RETRIES == 3
DEFAULT_RATE_LIMIT == 1000
rate_limit_delay == DEFAULT_RATE_LIMIT

\* Option<T>: None is the empty sequence, Some(x) the one-element sequence.
None == <<>>
Some(x) == <<x>>
IsSome(o) == Len(o) > 0
Unwrap(o) == o[1]

\* The HTTP statuses a server answers with in the model.
Statuses == {200, 404, 429, 500}
is_success(status) == status >= 200 /\ status < 300

\* What one attempt can meet: a transport-level failure (send() is Err), or a
\* response with a status whose body can or cannot be read.
TransportFailure == [sent |-> FALSE, status |-> 0, readable |-> FALSE]
Outcomes ==
    {TransportFailure}
    \cup {[sent |-> TRUE, status |-> s, readable |-> TRUE] : s \in Statuses}
    \cup {[sent |-> TRUE, status |-> 200, readable |-> FALSE]}

VARIABLES
    now,                \* the clock (Instant::now()), in ms
    tick,               \* the step of the clock
    horizon,            \* the clock value at which the model stops the clock
    served,             \* the outcomes the servers of this run give
    last_request_time,  \* BoothClient.last_request_time: Option<Instant>
    mutex,              \* the tasks holding the std::sync::Mutex (none or one)
    paired,             \* TRUE when all tasks are served the same outcomes
    script,             \* the outcomes served so far, by attempt (paired only)
    op,                 \* the operation each task was spawned to run
    url,                \* the URL each task was given
    stage,              \* get_product_info: the path the task is in
    json_result,        \* what get_product_info_json_internal returned: Option<Result>
    result,             \* get_product_info's result: Option<Result>
    pc,                 \* each task's position
    attempt,            \* the loop variable of the retry loop
    last_error,         \* the retry loop's last_error: Option<error>
    wake,               \* the deadline of the sleep the task is in
    resp,               \* the response the task is handling
    fetched,            \* the result of the retry loop: Option<Result>
    returned_at,        \* the instant of the task's last apply_rate_limit return: Option
    trace,              \* the task's rate-limit, request and sleep events
    responses,          \* the outcomes the attempts of the task's retry loop met
    call,               \* the function a run applies to arg ("none": no such run)
    arg,                \* the input of that function
    ret,                \* what the function returned: Option
    file_tags,          \* the rows of table file_tags: pairs <<file_id, tag_id>>
    tags,               \* the rows of table tags: tag id |-> [name, color, usage_count]
    tag_seq             \* the last id AUTOINCREMENT gave to a row of table tags

clientVars == <<last_request_time, mutex>>
loopVars == <<attempt, last_error, resp, fetched, responses, script>>
gpiVars == <<stage, json_result, result>>
callVars == <<call, arg, ret>>
repoVars == <<file_tags, tags, tag_seq>>
\* What the steps of the client leave alone: the configuration of the run,
\* and the state of the parsers and of the repository.
cfgVars == <<tick, horizon, served, paired, op, url, callVars, repoVars>>
vars == <<now, tick, horizon, served, last_request_time, mutex, paired, script, op,
          url, stage, json_result, result, pc, attempt, last_error, wake, resp,
          fetched, returned_at, trace, responses, call, arg, ret, file_tags, tags,
          tag_seq>>

\* An event of a task's trace: e is "rate_limit", "request" or "sleep", n the
\* attempt (for a sleep: its length in ms), at the stage the task is in.
Event(e, n, st) == [e |-> e, n |-> n, stage |-> st]

\* Results.  Ok(body) of attempt a, and the errors anyhow!(...) builds.
Success(a, status, content) ==
    [ok |-> TRUE, kind |-> "body", attempt |-> a, status |-> status, content |-> content]
Failure(kind, a, status) ==
    [ok |-> FALSE, kind |-> kind, attempt |-> a, status |-> status, content |-> "none"]

\* The outcome o is what attempt[t] meets.  Paired tasks are served the same
\* outcome at the same attempt: the first to get there chooses it.
Served(t, o) ==
    IF paired
    THEN IF attempt[t] <= Len(script)
         THEN o = script[attempt[t]] /\ script' = script
         ELSE script' = Append(script, o)
    ELSE script' = script

\* ------------------------------------------------------------- the clock
Advance ==
    /\ now + tick <= horizon
    /\ now' = now + tick
    /\ UNCHANGED <<clientVars, cfgVars, gpiVars, pc, loopVars, returned_at, wake, trace>>

\* ------------------------------------------------------ apply_rate_limit
\* Each of the two blocks that lock last_request_time has no suspension
\* point inside: it is one action, enabled when the mutex is free.  mutex is
\* who holds the lock between actions, that is across a suspension point.

\* The position a task returns to when apply_rate_limit is done.
RateLimitReturn(t) ==
    IF op[t] = "download_thumbnail" THEN "dt_send" ELSE "fw_send"

\* ComputeWait with the elapsed time taken for the time left.
ComputeWaitElapsed(last, clock) ==
    IF IsSome(last)
    THEN IF clock - Unwrap(last) < rate_limit_delay
         THEN Some(clock - Unwrap(last))
         ELSE None
    ELSE None

\* ComputeWait with a full delay added to the time left.
ComputeWaitLong(last, clock) ==
    IF IsSome(last)
    THEN IF clock - Unwrap(last) < rate_limit_delay
         THEN Some(2 * rate_limit_delay - (clock - Unwrap(last)))
         ELSE None
    ELSE None

\* The wait the first block computes from the timestamp it reads.
ComputeWait(last, clock) ==
    IF IsSome(last)
    THEN IF clock - Unwrap(last) < rate_limit_delay
         THEN Some(rate_limit_delay - (clock - Unwrap(last)))
         ELSE None
    ELSE None

\* ReleaseAfterRead with the guard bound to a variable that lives to the end
\* of the function.
ReleaseAtReturn(holders, t) == holders

\* The guard of the first block is dropped at the end of the block: the
\* holders of the mutex once task t, which held it with the others in
\* holders, leaves the block.
ReleaseAfterRead(holders, t) == holders \ {t}

\* let wait_time = { lock, read the timestamp, compute the wait };
\* if let Some(delay) = wait_time { sleep(delay).await }
RateLimitRead(t) ==
    /\ pc[t] = "rl_read"
    /\ mutex = {}
    /\ mutex' = ReleaseAfterRead(mutex \cup {t}, t)
    /\ LET wait_time == ComputeWait(last_request_time, now) IN
       IF IsSome(wait_time)
       THEN /\ wake' = [wake EXCEPT ![t] = now + Unwrap(wait_time)]
            /\ pc' = [pc EXCEPT ![t] = "rl_sleeping"]
       ELSE /\ pc' = [pc EXCEPT ![t] = "rl_write"]
            /\ UNCHANGED wake
    /\ UNCHANGED <<now, last_request_time, cfgVars, gpiVars, loopVars, returned_at, trace>>

\* The sleep returns, at or after its deadline.
RateLimitWake(t) ==
    /\ pc[t] = "rl_sleeping"
    /\ now >= wake[t]
    /\ wake' = [wake EXCEPT ![t] = 0]
    /\ pc' = [pc EXCEPT ![t] = "rl_write"]
    /\ UNCHANGED <<now, clientVars, cfgVars, gpiVars, loopVars, returned_at, trace>>

\* if let Ok(mut last_time) = lock() { *last_time = Some(Instant::now()) }
\* and the call returns.
RateLimitWrite(t) ==
    /\ pc[t] = "rl_write"
    /\ mutex = {}
    /\ last_request_time' = Some(now)
    /\ returned_at' = [returned_at EXCEPT ![t] = Some(now)]
    /\ trace' = [trace EXCEPT ![t] = Append(@, Event("rate_limit", attempt[t], stage[t]))]
    /\ pc' = [pc EXCEPT ![t] = RateLimitReturn(t)]
    /\ UNCHANGED <<now, mutex, cfgVars, gpiVars, loopVars, wake>>

apply_rate_limit(t) ==
    \/ RateLimitRead(t)
    \/ RateLimitWake(t)
    \/ RateLimitWrite(t)

\* ------------------------------------------------------ fetch_with_retry
\* What a body can hold when it is read, by what is being fetched.
Contents(t) ==
    IF op[t] = "get_product_info"
    THEN IF stage[t] = "json"
         THEN {"json_valid", "json_malformed"}
         ELSE {"html_named", "html_nameless"}
    ELSE {"text"}

\* The position fetch_with_retry returns to.
FetchReturn(t) ==
    IF op[t] = "get_product_info"
    THEN IF stage[t] = "json" THEN "json_fetched" ELSE "html_fetched"
    ELSE "done"

\* let mut last_error = None; and the first iteration begins.
FwStart(t) ==
    /\ attempt' = [attempt EXCEPT ![t] = 1]
    /\ last_error' = [last_error EXCEPT ![t] = None]
    /\ responses' = [responses EXCEPT ![t] = <<>>]

\* fw_is_rate_limited that takes server errors for transient too.
fw_is_transient(status) == status = 429 \/ status >= 500

\* status == 429
fw_is_rate_limited(status) == status = 429

\* The backoffs without the doubling.
fw_backoff_429_flat(a) == 1000
fw_backoff_network_flat(a) == 500

\* let backoff = Duration::from_millis(1000 * (2_u64.pow(attempt - 1)));
fw_backoff_429(a) == 1000 * (2 ^ (a - 1))
\* let backoff = Duration::from_millis(500 * (2_u64.pow(attempt - 1)));
fw_backoff_network(a) == 500 * (2 ^ (a - 1))

\* Err(last_error.unwrap_or_else(|| anyhow!("Max retries exceeded")))
fw_exhausted(le) ==
    IF IsSome(le) THEN Unwrap(le) ELSE Failure("max_retries", 0, 0)

\* fw_has_next with the loop running one iteration more, and one less.
fw_has_next_extra(a) == a <= MAX_RETRIES
fw_has_next_short(a) == a < MAX_RETRIES - 1

\* for attempt in 1..=Self::MAX_RETRIES: is there another iteration after a?
fw_has_next(a) == a < MAX_RETRIES

\* if attempt < Self::MAX_RETRIES { sleep(backoff) } of the Err(e) arm.
fw_network_sleeps(a) == a < MAX_RETRIES

\* FwEndAttempt that keeps the first error recorded (last_error.get_or_insert).
FwEndAttemptKeepFirst(t, le) ==
    /\ last_error' = [last_error EXCEPT ![t] = IF IsSome(@) THEN @ ELSE le]
    /\ IF fw_has_next(attempt[t])
       THEN /\ attempt' = [attempt EXCEPT ![t] = @ + 1]
            /\ pc' = [pc EXCEPT ![t] = "rl_read"]
            /\ UNCHANGED fetched
       ELSE /\ fetched' = [fetched EXCEPT ![t] =
                    Some(fw_exhausted(IF IsSome(last_error[t]) THEN last_error[t] ELSE le))]
            /\ pc' = [pc EXCEPT ![t] = FetchReturn(t)]
            /\ UNCHANGED attempt

\* An iteration ends with last_error = le: the next one begins with
\* apply_rate_limit, or the loop is over and the function returns the error.
FwEndAttempt(t, le) ==
    /\ last_error' = [last_error EXCEPT ![t] = le]
    /\ IF fw_has_next(attempt[t])
       THEN /\ attempt' = [attempt EXCEPT ![t] = @ + 1]
            /\ pc' = [pc EXCEPT ![t] = "rl_read"]
            /\ UNCHANGED fetched
       ELSE /\ fetched' = [fetched EXCEPT ![t] = Some(fw_exhausted(le))]
            /\ pc' = [pc EXCEPT ![t] = FetchReturn(t)]
            /\ UNCHANGED attempt

\* A task spawned to run fetch_with_retry calls it.
FwCall(t) ==
    /\ pc[t] = "call"
    /\ op[t] = "fetch_with_retry"
    /\ FwStart(t)
    /\ pc' = [pc EXCEPT ![t] = "rl_read"]
    /\ UNCHANGED <<now, clientVars, cfgVars, gpiVars, resp, fetched, script,
                   returned_at, wake, trace>>

\* self.client.get(url).send(): the request is issued.
FwSend(t) ==
    /\ pc[t] = "fw_send"
    /\ trace' = [trace EXCEPT ![t] = Append(@, Event("request", attempt[t], stage[t]))]
    /\ pc' = [pc EXCEPT ![t] = "fw_await"]
    /\ UNCHANGED <<now, clientVars, cfgVars, gpiVars, loopVars, returned_at, wake>>

\* send().await returns with outcome o; the match on it, up to the next await.
FwResponse(t) ==
    /\ pc[t] = "fw_await"
    /\ \E o \in served :
        /\ Served(t, o)
        /\ resp' = [resp EXCEPT ![t] = o]
        /\ responses' = [responses EXCEPT ![t] = Append(@, o)]
        /\ IF o.sent
           THEN IF is_success(o.status)
                THEN \* response.text().await
                     /\ pc' = [pc EXCEPT ![t] = "fw_text"]
                     /\ UNCHANGED <<attempt, last_error, fetched, wake, trace>>
                ELSE IF fw_is_rate_limited(o.status)
                THEN \* sleep(backoff).await
                     /\ wake' = [wake EXCEPT ![t] = now + fw_backoff_429(attempt[t])]
                     /\ trace' = [trace EXCEPT ![t] =
                            Append(@, Event("sleep", fw_backoff_429(attempt[t]), stage[t]))]
                     /\ pc' = [pc EXCEPT ![t] = "fw_backoff_429"]
                     /\ UNCHANGED <<attempt, last_error, fetched>>
                ELSE \* return Err(anyhow!("HTTP error: {}", status))
                     /\ fetched' = [fetched EXCEPT ![t] =
                            Some(Failure("http", attempt[t], o.status))]
                     /\ pc' = [pc EXCEPT ![t] = FetchReturn(t)]
                     /\ UNCHANGED <<attempt, last_error, wake, trace>>
           ELSE \* Err(e): last_error = Some(anyhow!("Network error: {}", e))
                IF fw_network_sleeps(attempt[t])
                THEN /\ last_error' = [last_error EXCEPT ![t] =
                            Some(Failure("network", attempt[t], 0))]
                     /\ wake' = [wake EXCEPT ![t] = now + fw_backoff_network(attempt[t])]
                     /\ trace' = [trace EXCEPT ![t] =
                            Append(@, Event("sleep", fw_backoff_network(attempt[t]), stage[t]))]
                     /\ pc' = [pc EXCEPT ![t] = "fw_backoff_network"]
                     /\ UNCHANGED <<attempt, fetched>>
                ELSE /\ FwEndAttempt(t, Some(Failure("network", attempt[t], 0)))
                     /\ UNCHANGED <<wake, trace>>
    /\ UNCHANGED <<now, clientVars, cfgVars, gpiVars, returned_at>>

\* FwText that returns the read error at once instead of going on.
FwTextFailsFast(t) ==
    /\ pc[t] = "fw_text"
    /\ IF resp[t].readable
       THEN /\ \E c \in Contents(t) :
                fetched' = [fetched EXCEPT ![t] =
                    Some(Success(attempt[t], resp[t].status, c))]
            /\ pc' = [pc EXCEPT ![t] = FetchReturn(t)]
            /\ UNCHANGED <<attempt, last_error>>
       ELSE /\ fetched' = [fetched EXCEPT ![t] =
                    Some(Failure("read", attempt[t], resp[t].status))]
            /\ pc' = [pc EXCEPT ![t] = FetchReturn(t)]
            /\ UNCHANGED <<attempt, last_error>>
    /\ UNCHANGED <<now, clientVars, cfgVars, gpiVars, resp, responses, script,
                   returned_at, wake, trace>>

\* FwText that does not record the read error.
FwTextForgetsError(t) ==
    /\ pc[t] = "fw_text"
    /\ IF resp[t].readable
       THEN /\ \E c \in Contents(t) :
                fetched' = [fetched EXCEPT ![t] =
                    Some(Success(attempt[t], resp[t].status, c))]
            /\ pc' = [pc EXCEPT ![t] = FetchReturn(t)]
            /\ UNCHANGED <<attempt, last_error>>
       ELSE FwEndAttempt(t, last_error[t])
    /\ UNCHANGED <<now, clientVars, cfgVars, gpiVars, resp, responses, script,
                   returned_at, wake, trace>>

\* response.text().await returns: Ok(text) returns the body, Err(e) is recorded.
FwText(t) ==
    /\ pc[t] = "fw_text"
    /\ IF resp[t].readable
       THEN /\ \E c \in Contents(t) :
                fetched' = [fetched EXCEPT ![t] =
                    Some(Success(attempt[t], resp[t].status, c))]
            /\ pc' = [pc EXCEPT ![t] = FetchReturn(t)]
            /\ UNCHANGED <<attempt, last_error>>
       ELSE FwEndAttempt(t, Some(Failure("read", attempt[t], resp[t].status)))
    /\ UNCHANGED <<now, clientVars, cfgVars, gpiVars, resp, responses, script,
                   returned_at, wake, trace>>

\* The backoff after a 429 returns: last_error = Some("Rate limited (429)").
FwBackoff429Done(t) ==
    /\ pc[t] = "fw_backoff_429"
    /\ now >= wake[t]
    /\ FwEndAttempt(t, Some(Failure("rate_limited", attempt[t], 429)))
    /\ wake' = [wake EXCEPT ![t] = 0]
    /\ UNCHANGED <<now, clientVars, cfgVars, gpiVars, resp, responses, script,
                   returned_at, trace>>

\* The backoff after a transport failure returns.
FwBackoffNetworkDone(t) ==
    /\ pc[t] = "fw_backoff_network"
    /\ now >= wake[t]
    /\ FwEndAttempt(t, last_error[t])
    /\ wake' = [wake EXCEPT ![t] = 0]
    /\ UNCHANGED <<now, clientVars, cfgVars, gpiVars, resp, responses, script,
                   returned_at, trace>>

fetch_with_retry(t) ==
    \/ FwSend(t)
    \/ FwResponse(t)
    \/ FwText(t)
    \/ FwBackoff429Done(t)
    \/ FwBackoffNetworkDone(t)

\* ---------------------------------------------------- download_thumbnail
\* response.status() == 429
dt_is_rate_limited(status) == status = 429

dt_backoff_429(a) == 1000 * (2 ^ (a - 1))
dt_backoff_network(a) == 500 * (2 ^ (a - 1))

\* Err(last_error.unwrap_or_else(|| anyhow!("Max retries exceeded for thumbnail download")))
dt_exhausted(le) ==
    IF IsSome(le) THEN Unwrap(le) ELSE Failure("max_retries", 0, 0)

\* for attempt in 1..=Self::MAX_RETRIES: is there another iteration after a?
dt_has_next(a) == a < MAX_RETRIES

\* dt_network_sleeps with the backoff slept after the last attempt too.
dt_network_always_sleeps(a) == TRUE

\* if attempt < Self::MAX_RETRIES { sleep(backoff) } of the Err(e) arm.
dt_network_sleeps(a) == a < MAX_RETRIES

\* An iteration ends with last_error = le.
DtEndAttempt(t, le) ==
    /\ last_error' = [last_error EXCEPT ![t] = le]
    /\ IF dt_has_next(attempt[t])
       THEN /\ attempt' = [attempt EXCEPT ![t] = @ + 1]
            /\ pc' = [pc EXCEPT ![t] = "rl_read"]
            /\ UNCHANGED fetched
       ELSE /\ fetched' = [fetched EXCEPT ![t] = Some(dt_exhausted(le))]
            /\ pc' = [pc EXCEPT ![t] = "done"]
            /\ UNCHANGED attempt

\* A task spawned to run download_thumbnail calls it.
DtCall(t) ==
    /\ pc[t] = "call"
    /\ op[t] = "download_thumbnail"
    /\ attempt' = [attempt EXCEPT ![t] = 1]
    /\ last_error' = [last_error EXCEPT ![t] = None]
    /\ pc' = [pc EXCEPT ![t] = "rl_read"]
    /\ UNCHANGED <<now, clientVars, cfgVars, gpiVars, resp, fetched, responses,
                   script, returned_at, wake, trace>>

\* self.client.get(thumbnail_url).send(): the request is issued.
DtSend(t) ==
    /\ pc[t] = "dt_send"
    /\ trace' = [trace EXCEPT ![t] = Append(@, Event("request", attempt[t], stage[t]))]
    /\ pc' = [pc EXCEPT ![t] = "dt_await"]
    /\ UNCHANGED <<now, clientVars, cfgVars, gpiVars, loopVars, returned_at, wake>>

\* send().await returns with outcome o; the match on it, up to the next await.
DtResponse(t) ==
    /\ pc[t] = "dt_await"
    /\ \E o \in served :
        /\ Served(t, o)
        /\ resp' = [resp EXCEPT ![t] = o]
        /\ responses' = [responses EXCEPT ![t] = Append(@, o)]
        /\ IF o.sent
           THEN IF is_success(o.status)
                THEN \* response.bytes().await
                     /\ pc' = [pc EXCEPT ![t] = "dt_bytes"]
                     /\ UNCHANGED <<attempt, last_error, fetched, wake, trace>>
                ELSE IF dt_is_rate_limited(o.status)
                THEN \* sleep(backoff).await
                     /\ wake' = [wake EXCEPT ![t] = now + dt_backoff_429(attempt[t])]
                     /\ trace' = [trace EXCEPT ![t] =
                            Append(@, Event("sleep", dt_backoff_429(attempt[t]), stage[t]))]
                     /\ pc' = [pc EXCEPT ![t] = "dt_backoff_429"]
                     /\ UNCHANGED <<attempt, last_error, fetched>>
                ELSE \* return Err(anyhow!("HTTP error: {}", response.status()))
                     /\ fetched' = [fetched EXCEPT ![t] =
                            Some(Failure("http", attempt[t], o.status))]
                     /\ pc' = [pc EXCEPT ![t] = "done"]
                     /\ UNCHANGED <<attempt, last_error, wake, trace>>
           ELSE \* Err(e): last_error = Some(anyhow!("Network error: {}", e))
                IF dt_network_sleeps(attempt[t])
                THEN /\ last_error' = [last_error EXCEPT ![t] =
                            Some(Failure("network", attempt[t], 0))]
                     /\ wake' = [wake EXCEPT ![t] = now + dt_backoff_network(attempt[t])]
                     /\ trace' = [trace EXCEPT ![t] =
                            Append(@, Event("sleep", dt_backoff_network(attempt[t]), stage[t]))]
                     /\ pc' = [pc EXCEPT ![t] = "dt_backoff_network"]
                     /\ UNCHANGED <<attempt, fetched>>
                ELSE /\ DtEndAttempt(t, Some(Failure("network", attempt[t], 0)))
                     /\ UNCHANGED <<wake, trace>>
    /\ UNCHANGED <<now, clientVars, cfgVars, gpiVars, returned_at>>

\* response.bytes().await returns: Ok(bytes) returns them, Err(e) is recorded.
DtBytes(t) ==
    /\ pc[t] = "dt_bytes"
    /\ IF resp[t].readable
       THEN /\ fetched' = [fetched EXCEPT ![t] =
                    Some(Success(attempt[t], resp[t].status, "bytes"))]
            /\ pc' = [pc EXCEPT ![t] = "done"]
            /\ UNCHANGED <<attempt, last_error>>
       ELSE DtEndAttempt(t, Some(Failure("read", attempt[t], resp[t].status)))
    /\ UNCHANGED <<now, clientVars, cfgVars, gpiVars, resp, responses, script,
                   returned_at, wake, trace>>

\* The backoff after a 429 returns: last_error = Some("Rate limited, retrying...").
DtBackoff429Done(t) ==
    /\ pc[t] = "dt_backoff_429"
    /\ now >= wake[t]
    /\ DtEndAttempt(t, Some(Failure("rate_limited", attempt[t], 429)))
    /\ wake' = [wake EXCEPT ![t] = 0]
    /\ UNCHANGED <<now, clientVars, cfgVars, gpiVars, resp, responses, script,
                   returned_at, trace>>

\* The backoff after a transport failure returns.
DtBackoffNetworkDone(t) ==
    /\ pc[t] = "dt_backoff_network"
    /\ now >= wake[t]
    /\ DtEndAttempt(t, last_error[t])
    /\ wake' = [wake EXCEPT ![t] = 0]
    /\ UNCHANGED <<now, clientVars, cfgVars, gpiVars, resp, responses, script,
                   returned_at, trace>>

download_thumbnail(t) ==
    \/ DtCall(t)
    \/ DtSend(t)
    \/ DtResponse(t)
    \/ DtBytes(t)
    \/ DtBackoff429Done(t)
    \/ DtBackoffNetworkDone(t)

\* ------------------------------------------------------- get_product_info
\* A URL string as Url::parse sees it: whether it parses, its host as the
\* sequence of its dot-separated labels, and its path as the sequence
\* path.split('/') gives (the first element is the empty string before the
\* leading slash).  A segment is a sequence of characters.
Url(host, path) == [parsed |-> TRUE, host |-> host, path |-> path]
NoUrl == [parsed |-> FALSE, host |-> <<>>, path |-> <<>>]

MAIN_DOMAIN == <<"booth", "pm">>

\* host == booth::MAIN_DOMAIN || host.ends_with(booth::SUBDOMAIN_SUFFIX)
is_valid_booth_url(u) ==
    \/ u.host = MAIN_DOMAIN
    \/ /\ Len(u.host) > Len(MAIN_DOMAIN)
       /\ SubSeq(u.host, Len(u.host) - Len(MAIN_DOMAIN) + 1, Len(u.host)) = MAIN_DOMAIN

Digits == <<"0", "1", "2", "3", "4", "5", "6", "7", "8", "9">>
IsDigit(c) == \E i \in 1..Len(Digits) : Digits[i] = c
DigitValue(c) == (CHOOSE i \in 1..Len(Digits) : Digits[i] = c) - 1

RECURSIVE DigitsValue(_)
DigitsValue(ds) ==
    IF ds = <<>> THEN 0
    ELSE 10 * DigitsValue(SubSeq(ds, 1, Len(ds) - 1)) + DigitValue(ds[Len(ds)])

\* The most digits a segment of the model has; every such number fits an i64.
MaxDigits == 5

\* str::parse::<i64>: an optional sign, then one or more ASCII digits.
parse_i64(seg) ==
    LET signed == seg # <<>> /\ seg[1] \in {"+", "-"}
        ds == IF signed THEN Tail(seg) ELSE seg
    IN  IF ds # <<>> /\ Len(ds) <= MaxDigits /\ \A i \in 1..Len(ds) : IsDigit(ds[i])
        THEN Some(IF signed /\ seg[1] = "-" THEN 0 - DigitsValue(ds) ELSE DigitsValue(ds))
        ELSE None

ITEMS == <<"i", "t", "e", "m", "s">>

\* extract_product_id that keeps scanning and returns its last match.
extract_last_product_id(u) ==
    LET hits == {i \in 1..Len(u.path) :
                    /\ u.path[i] = ITEMS
                    /\ i + 1 <= Len(u.path)
                    /\ IsSome(parse_i64(u.path[i + 1]))}
    IN  IF hits = {} THEN None
        ELSE parse_i64(u.path[(CHOOSE i \in hits : \A j \in hits : i >= j) + 1])

\* The first "items" segment that has a next segment which parses as an i64
\* gives the id; None stands for the "Could not extract product ID" error.
extract_product_id(u) ==
    LET hits == {i \in 1..Len(u.path) :
                    /\ u.path[i] = ITEMS
                    /\ i + 1 <= Len(u.path)
                    /\ IsSome(parse_i64(u.path[i + 1]))}
    IN  IF hits = {} THEN None
        ELSE parse_i64(u.path[(CHOOSE i \in hits : \A j \in hits : i <= j) + 1])

\* The results of get_product_info: a record and where it came from, or the
\* error and the path that raised it.
Resolved(source) == [ok |-> TRUE, source |-> source, error |-> "none"]
Rejected(source, error) == [ok |-> FALSE, source |-> source, error |-> error]

\* serde_json::from_str::<BoothJsonResponse>(&json_content)
json_parses(content) == content = "json_valid"

\* parse_shop_name / parse_product_name or their title fallbacks find a name.
html_has_names(content) == content = "html_named"

\* get_product_info_with_parser up to its fetch: Url::parse, is_valid_booth_url
\* and extract_product_id; None when all three pass.
html_precheck(u) ==
    IF ~u.parsed THEN Some(Rejected("html", "url_parse"))
    ELSE IF ~is_valid_booth_url(u) THEN Some(Rejected("html", "invalid_booth_url"))
    ELSE IF ~IsSome(extract_product_id(u)) THEN Some(Rejected("html", "no_product_id"))
    ELSE None

\* get_product_info_json_internal up to its fetch: Url::parse(booth_url)?
json_precheck(u) ==
    IF ~u.parsed THEN Some(Failure("url_parse", 0, 0)) ELSE None

\* The rest of get_product_info_json_internal, from the result r of its
\* fetch: the error of the fetch, the error of serde, or the record.
json_internal_result(r) ==
    IF r.ok
    THEN IF json_parses(r.content) THEN r
         ELSE Failure("json_parse", r.attempt, r.status)
    ELSE r

\* falls_back that hands a definitive HTTP error to the caller.
falls_back_unless_http(j) == ~j.ok /\ j.kind # "http"

\* falls_back that runs the HTML path after a JSON success too.
falls_back_always(j) == TRUE

\* match self.get_product_info_json_internal(booth_url).await: the Err arm.
falls_back(j) == ~j.ok

\* The Err(json_error) arm of get_product_info: the JSON error is logged and
\* get_product_info_with_parser runs, up to its fetch.
GpiFallback(t) ==
    /\ stage' = [stage EXCEPT ![t] = "html"]
    /\ fetched' = [fetched EXCEPT ![t] = None]
    /\ IF IsSome(html_precheck(url[t]))
       THEN /\ result' = [result EXCEPT ![t] = html_precheck(url[t])]
            /\ pc' = [pc EXCEPT ![t] = "done"]
            /\ UNCHANGED <<attempt, last_error, responses>>
       ELSE /\ FwStart(t)
            /\ pc' = [pc EXCEPT ![t] = "rl_read"]
            /\ UNCHANGED result

\* get_product_info is called: get_product_info_json_internal up to its fetch.
GpiCall(t) ==
    /\ pc[t] = "call"
    /\ op[t] = "get_product_info"
    /\ IF IsSome(json_precheck(url[t]))
       THEN /\ json_result' = [json_result EXCEPT ![t] = json_precheck(url[t])]
            /\ GpiFallback(t)
       ELSE /\ stage' = [stage EXCEPT ![t] = "json"]
            /\ FwStart(t)
            /\ pc' = [pc EXCEPT ![t] = "rl_read"]
            /\ UNCHANGED <<json_result, result, fetched>>
    /\ UNCHANGED <<now, clientVars, cfgVars, resp, script, returned_at, wake, trace>>

\* fetch_with_retry(&json_url) has returned: the rest of
\* get_product_info_json_internal and the match of get_product_info.
GpiJsonFetched(t) ==
    /\ pc[t] = "json_fetched"
    /\ LET j == json_internal_result(Unwrap(fetched[t])) IN
       /\ json_result' = [json_result EXCEPT ![t] = Some(j)]
       /\ IF falls_back(j)
          THEN GpiFallback(t)
          ELSE /\ result' = [result EXCEPT ![t] = Some(Resolved("json"))]
               /\ pc' = [pc EXCEPT ![t] = "done"]
               /\ UNCHANGED <<stage, fetched, attempt, last_error, responses>>
    /\ UNCHANGED <<now, clientVars, cfgVars, resp, script, returned_at, wake, trace>>

\* fetch_with_retry(booth_url) has returned: the rest of
\* get_product_info_with_parser.
GpiHtmlFetched(t) ==
    /\ pc[t] = "html_fetched"
    /\ LET r == Unwrap(fetched[t]) IN
       result' = [result EXCEPT ![t] =
           IF ~r.ok THEN Some(Rejected("html", r.kind))
           ELSE IF html_has_names(r.content) THEN Some(Resolved("html"))
           ELSE Some(Rejected("html", "name_not_found"))]
    /\ pc' = [pc EXCEPT ![t] = "done"]
    /\ UNCHANGED <<now, clientVars, cfgVars, stage, json_result, loopVars, returned_at,
                   wake, trace>>

get_product_info(t) ==
    \/ GpiCall(t)
    \/ GpiJsonFetched(t)
    \/ GpiHtmlFetched(t)

\* ------------------------------------------------------------------ text
\* A string is the sequence of its characters; a character is written as a
\* one-letter string, or as the name of a character outside ASCII: "yen" is
\* the yen sign (2 bytes in UTF-8), "ka" and "ki" are two kanji (3 bytes each).
TwoByteChars == {"yen"}
ThreeByteChars == {"ka", "ki"}
Whitespace == {" ", "\n"}

\* The number of bytes of a character in UTF-8.
Utf8Width(c) == IF c \in ThreeByteChars THEN 3 ELSE IF c \in TwoByteChars THEN 2 ELSE 1

\* str::len(): the length of the string in bytes.
RECURSIVE str_len(_)
str_len(text) == IF text = <<>> THEN 0 ELSE Utf8Width(Head(text)) + str_len(Tail(text))

\* str::trim(): without the leading and trailing whitespace.
trim(text) ==
    LET inked == {i \in 1..Len(text) : text[i] \notin Whitespace}
    IN  IF inked = {} THEN <<>>
        ELSE SubSeq(text, CHOOSE i \in inked : \A j \in inked : i <= j,
                          CHOOSE i \in inked : \A j \in inked : i >= j)

\* str::starts_with(pat)
starts_with(text, pat) == Len(pat) <= Len(text) /\ SubSeq(text, 1, Len(pat)) = pat

\* str::replace(pat, ""): every match of pat, left to right, is taken out.
RECURSIVE remove_all(_, _)
remove_all(text, pat) ==
    IF text = <<>> THEN <<>>
    ELSE IF starts_with(text, pat)
    THEN remove_all(SubSeq(text, Len(pat) + 1, Len(text)), pat)
    ELSE <<Head(text)>> \o remove_all(Tail(text), pat)

\* str::replace(c, "") for each character c of a set.
remove_chars(text, chars) == SelectSeq(text, LAMBDA c : c \notin chars)

\* str::split(pat).collect(): the pieces between the matches of pat; cur is
\* the piece being read.
RECURSIVE split_from(_, _, _)
split_from(text, pat, cur) ==
    IF text = <<>> THEN <<cur>>
    ELSE IF starts_with(text, pat)
    THEN <<cur>> \o split_from(SubSeq(text, Len(pat) + 1, Len(text)), pat, <<>>)
    ELSE split_from(Tail(text), pat, Append(cur, Head(text)))

split(text, pat) == split_from(text, pat, <<>>)

\* [&str]::join(sep)
RECURSIVE join(_, _)
join(parts, sep) ==
    IF parts = <<>> THEN <<>>
    ELSE IF Len(parts) = 1 THEN parts[1]
    ELSE parts[1] \o sep \o join(Tail(parts), sep)

\* text repeated: n times the character c.
Repeat(c, n) == [i \in 1..n |-> c]

\* ------------------------------------------------------------ parse_tags
\* The bounds of the length check of parse_tags.
MIN_TAG_LEN == 2
MAX_TAG_LEN == 50

\* Three of the phrases of excluded_texts: "Share", "OK" and a two-kanji one.
Share == <<"S", "h", "a", "r", "e">>
excluded_texts == {Share, <<"O", "K">>, <<"ka", "ki">>}

\* The body of the two loops of parse_tags for one element: its trimmed text
\* is pushed when it passes the length check, is no excluded text and is not
\* in tags yet.
push_tag(found, element) ==
    LET tag_text == trim(element)
    IN  IF /\ str_len(tag_text) >= MIN_TAG_LEN
           /\ str_len(tag_text) <= MAX_TAG_LEN
           /\ tag_text # <<>>
           /\ tag_text \notin excluded_texts
           /\ \A i \in 1..Len(found) : found[i] # tag_text
        THEN Append(found, tag_text)
        ELSE found

\* parse_tags over the texts of the elements the selectors match, in the
\* order the loops visit them (selector by selector, document order within).
RECURSIVE parse_tags_from(_, _)
parse_tags_from(elements, found) ==
    IF elements = <<>> THEN found
    ELSE parse_tags_from(Tail(elements), push_tag(found, Head(elements)))

parse_tags(elements) == parse_tags_from(elements, <<>>)

\* ----------------------------------------------------------------- price
\* The characters parse_price_from_string and parse_price take out.
PriceNoise == {"yen", ",", " "}

\* parse_price_from_string whose "0" is not taken for free.
parse_price_keeps_zero(price_str) ==
    LET cleaned == trim(remove_chars(price_str, PriceNoise))
    IN  IF cleaned = <<>> THEN None ELSE parse_i64(cleaned)

\* parse_price_from_string: Option<i64>
parse_price_from_string(price_str) ==
    LET cleaned == trim(remove_chars(price_str, PriceNoise))
    IN  IF cleaned = <<>> \/ cleaned = <<"0">> THEN None ELSE parse_i64(cleaned)

\* ------------------------------------------------------- the HTML parsers
\* A document is what the selectors of each field find in it: for a field,
\* the texts (or attribute values) of the first elements of the selectors
\* that match, in the order of the selector list; for the tags the texts of
\* all matched elements; and the text of <title>, if there is one.
Document(shop, product, title, price, description, thumbnail, tag_elements) ==
    [shop |-> shop, product |-> product, title |-> title, price |-> price,
     description |-> description, thumbnail |-> thumbnail, tags |-> tag_elements]

\* The first candidate whose trimmed text is not empty, trimmed.
RECURSIVE first_text(_)
first_text(cands) ==
    IF cands = <<>> THEN None
    ELSE IF trim(Head(cands)) # <<>> THEN Some(trim(Head(cands)))
    ELSE first_text(Tail(cands))

parse_shop_name(doc) == first_text(doc.shop)

\* char::to_lowercase for the letters of the model that have a lower case.
to_lowercase_char(c) ==
    IF c = "B" THEN "b" ELSE IF c = "O" THEN "o" ELSE IF c = "T" THEN "t"
    ELSE IF c = "H" THEN "h" ELSE IF c = "S" THEN "s" ELSE IF c = "W" THEN "w"
    ELSE IF c = "K" THEN "k" ELSE c
to_lowercase(text) == [i \in 1..Len(text) |-> to_lowercase_char(text[i])]

\* str::contains(pat)
contains(text, pat) ==
    \E i \in 1..(Len(text) - Len(pat) + 1) : SubSeq(text, i, i + Len(pat) - 1) = pat

booth_lower == <<"b", "o", "o", "t", "h">>

\* parse_product_name: the first candidate that is not empty, does not
\* contain "booth" and is not the shop name the selectors found.
RECURSIVE product_text(_, _)
product_text(cands, shop_name) ==
    IF cands = <<>> THEN None
    ELSE LET text == trim(Head(cands))
         IN  IF /\ text # <<>>
                /\ ~contains(to_lowercase(text), booth_lower)
                /\ Some(text) # shop_name
             THEN Some(text)
             ELSE product_text(Tail(cands), shop_name)

\* parse_product_name that does not compare with the shop name.
parse_product_name_any(doc) == product_text(doc.product, None)

parse_product_name(doc) == product_text(doc.product, parse_shop_name(doc))

\* parse_price: the first candidate that parses as an i64 once the yen sign,
\* the commas and the spaces are taken out (it is not trimmed).
RECURSIVE price_text(_)
price_text(cands) ==
    IF cands = <<>> THEN None
    ELSE IF IsSome(parse_i64(remove_chars(Head(cands), PriceNoise)))
    THEN parse_i64(remove_chars(Head(cands), PriceNoise))
    ELSE price_text(Tail(cands))

parse_price(doc) == price_text(doc.price)

parse_description(doc) == first_text(doc.description)

\* parse_thumbnail_url: the first attribute value that is not empty.
RECURSIVE first_nonempty(_)
first_nonempty(cands) ==
    IF cands = <<>> THEN None
    ELSE IF Head(cands) # <<>> THEN Some(Head(cands))
    ELSE first_nonempty(Tail(cands))

parse_thumbnail_url(doc) == first_nonempty(doc.thumbnail)

\* --------------------------------------------------- the title fallbacks
SEP == <<" ", "-", " ">>
BOOTH == <<"B", "O", "O", "T", "H">>

\* fallback_parse_shop_name: the second-to-last piece of the title.
fallback_parse_shop_name(doc) ==
    IF IsSome(doc.title)
    THEN LET parts == split(Unwrap(doc.title), SEP)
         IN  IF Len(parts) >= 2 THEN Some(trim(parts[Len(parts) - 1])) ELSE None
    ELSE None

\* fallback_parse_product_name: the title without " - BOOTH", without its
\* last piece when it has several.
fallback_parse_product_name(doc) ==
    IF IsSome(doc.title)
    THEN LET clean_title == remove_all(Unwrap(doc.title), SEP \o BOOTH)
             parts == split(clean_title, SEP)
         IN  IF Len(parts) >= 2
             THEN Some(trim(join(SubSeq(parts, 1, Len(parts) - 1), SEP)))
             ELSE Some(trim(parts[1]))
    ELSE None

\* Option::or_else
or_else(o, other) == IF IsSome(o) THEN o ELSE other

\* ------------------------------------------------------------ the records
\* is_free that looks at the absence of the price only.
is_free_if_absent(price) == price = None

\* let is_free = price.is_none() || price == Some(0);
is_free(price) == price = None \/ price = Some(0)

BoothProductInfo(product_id, shop_name, product_name, price, description, thumbnail_url, tag_names) ==
    [product_id |-> product_id, shop_name |-> shop_name, product_name |-> product_name,
     price |-> price, description |-> description, thumbnail_url |-> thumbnail_url,
     is_free |-> is_free(price), tags |-> tag_names]

Ok(record) == [ok |-> TRUE, record |-> record]
Err(error) == [ok |-> FALSE, error |-> error]

\* A body serde accepts as a BoothJsonResponse: images is the sequence of the
\* [resized, original] of its images, both Option; tag_names the names of
\* its tags.
BoothJsonResponse(id, name, price, description, tag_names, images, shop_name) ==
    [id |-> id, name |-> name, price |-> price, description |-> description,
     tags |-> tag_names, images |-> images, shop_name |-> shop_name]

\* get_product_info_json_internal from the parsed body on.
json_record(json_response) ==
    Ok(BoothProductInfo(
        Some(json_response.id),
        json_response.shop_name,
        json_response.name,
        parse_price_from_string(json_response.price),
        json_response.description,
        IF json_response.images = <<>> THEN None
        ELSE or_else(json_response.images[1].resized, json_response.images[1].original),
        json_response.tags))

\* html_record that gives up when the page shows no price.
html_record_needs_price(doc, product_id) ==
    LET shop_name == or_else(parse_shop_name(doc), fallback_parse_shop_name(doc))
        product_name == or_else(parse_product_name(doc), fallback_parse_product_name(doc))
    IN  IF shop_name = None THEN Err("shop_name_not_found")
        ELSE IF product_name = None THEN Err("product_name_not_found")
        ELSE IF parse_price(doc) = None THEN Err("price_not_found")
        ELSE Ok(BoothProductInfo(Some(product_id), Unwrap(shop_name), Unwrap(product_name),
                parse_price(doc), parse_description(doc), parse_thumbnail_url(doc),
                parse_tags(doc.tags)))

\* get_product_info_with_parser from the parsed document on.
html_record(doc, product_id) ==
    LET shop_name == or_else(parse_shop_name(doc), fallback_parse_shop_name(doc))
        product_name == or_else(parse_product_name(doc), fallback_parse_product_name(doc))
    IN  IF shop_name = None THEN Err("shop_name_not_found")
        ELSE IF product_name = None THEN Err("product_name_not_found")
        ELSE Ok(BoothProductInfo(Some(product_id), Unwrap(shop_name), Unwrap(product_name),
                parse_price(doc), parse_description(doc), parse_thumbnail_url(doc),
                parse_tags(doc.tags)))

\* ---------------------------------------------------- validate_booth_url
\* host == booth::MAIN_DOMAIN || host.ends_with(booth::SUBDOMAIN_SUFFIX)
is_booth_domain(u) ==
    \/ u.host = MAIN_DOMAIN
    \/ /\ Len(u.host) > Len(MAIN_DOMAIN)
       /\ SubSeq(u.host, Len(u.host) - Len(MAIN_DOMAIN) + 1, Len(u.host)) = MAIN_DOMAIN

\* item_id.chars().all(|c| c.is_ascii_digit()) && !item_id.is_empty()
is_numeric_id(item_id) ==
    item_id # <<>> /\ \A i \in 1..Len(item_id) : IsDigit(item_id[i])

\* validate_booth_url: the host is a BOOTH host, and in the path without its
\* empty segments the first "items" has a next segment, all digits.
validate_booth_url(u) ==
    IF ~u.parsed THEN FALSE
    ELSE IF ~is_booth_domain(u) THEN FALSE
    ELSE LET path_segments == SelectSeq(u.path, LAMBDA seg : seg # <<>>)
             found == {i \in 1..Len(path_segments) : path_segments[i] = ITEMS}
         IN  IF found = {} THEN FALSE
             ELSE LET items_idx == CHOOSE i \in found : \A j \in found : i <= j
                  IN  IF items_idx + 1 <= Len(path_segments)
                      THEN is_numeric_id(path_segments[items_idx + 1])
                      ELSE FALSE

\* --------------------------------------------------------- specifications
\* The state a freshly built client and freshly spawned tasks are in; ops
\* gives each task its operation ("none": the task does not run), urls its URL.
Start(ops, urls, step, limit, outcomes, pair) ==
    /\ now = 0
    /\ tick = step
    /\ horizon = limit
    /\ served = outcomes
    /\ last_request_time = None
    /\ mutex = {}
    /\ paired = pair
    /\ script = <<>>
    /\ op = ops
    /\ url = urls
    /\ stage = [t \in Tasks |-> "none"]
    /\ json_result = [t \in Tasks |-> None]
    /\ result = [t \in Tasks |-> None]
    /\ pc = [t \in Tasks |-> IF ops[t] = "none" THEN "off" ELSE "call"]
    /\ attempt = [t \in Tasks |-> 0]
    /\ last_error = [t \in Tasks |-> None]
    /\ wake = [t \in Tasks |-> 0]
    /\ resp = [t \in Tasks |-> TransportFailure]
    /\ fetched = [t \in Tasks |-> None]
    /\ returned_at = [t \in Tasks |-> None]
    /\ trace = [t \in Tasks |-> <<>>]
    /\ responses = [t \in Tasks |-> <<>>]

\* No function is applied in the run, and the repository is empty.
NoCall == call = "none" /\ arg = <<>> /\ ret = None
NoRepo == file_tags = {} /\ tags = <<>> /\ tag_seq = 0

\* The outcomes the servers give where several tasks run at once: a
\* transport failure, a 429 and a 200 with a readable body.
ConcurrentOutcomes ==
    {o \in Outcomes : ~o.sent \/ (o.readable /\ o.status \in {200, 429})}

\* Every task downloads a thumbnail through the one shared client.
InitConcurrent ==
    /\ Start([t \in Tasks |-> "download_thumbnail"], [t \in Tasks |-> NoUrl],
             TickFine, MaxTimeConcurrent, ConcurrentOutcomes, FALSE)
    /\ NoCall /\ NoRepo

NextConcurrent ==
    \/ Advance
    \/ \E t \in Tasks : apply_rate_limit(t)
    \/ \E t \in Tasks : download_thumbnail(t)

SpecConcurrent == InitConcurrent /\ [][NextConcurrent]_vars

\* The same tasks under a fair scheduler: a task that can run is polled, and
\* the clock goes on when no task can run and some task is still in its call,
\* waiting for the clock.  The horizon leaves the time for every call to end.
\* The server answers the n-th attempt of every task alike.
InitConcurrentFair ==
    /\ Start([t \in Tasks |-> "download_thumbnail"], [t \in Tasks |-> NoUrl],
             TickFine, MaxTimePair, ConcurrentOutcomes, TRUE)
    /\ NoCall /\ NoRepo

TaskStep(t) == apply_rate_limit(t) \/ download_thumbnail(t)

Running(t) == pc[t] \notin {"off", "done"}

AdvanceConcurrent ==
    /\ \E t \in Tasks : Running(t)
    /\ ~ENABLED (\E t \in Tasks : TaskStep(t))
    /\ Advance

NextConcurrentFair ==
    \/ AdvanceConcurrent
    \/ \E t \in Tasks : apply_rate_limit(t)
    \/ \E t \in Tasks : download_thumbnail(t)

SpecConcurrentFair ==
    /\ InitConcurrentFair
    /\ [][NextConcurrentFair]_vars
    /\ WF_vars(AdvanceConcurrent)
    /\ \A t \in Tasks : WF_vars(TaskStep(t))

\* One task calls fetch_with_retry; the server answers any way it can.
InitFetch ==
    /\ Start([t \in Tasks |-> IF t = 1 THEN "fetch_with_retry" ELSE "none"],
             [t \in Tasks |-> NoUrl], TickFine, MaxTimeSequential, Outcomes, FALSE)
    /\ NoCall /\ NoRepo

NextFetch ==
    \/ Advance
    \/ \E t \in Tasks : apply_rate_limit(t)
    \/ \E t \in Tasks : FwCall(t)
    \/ \E t \in Tasks : fetch_with_retry(t)

SpecFetch == InitFetch /\ [][NextFetch]_vars

\* A caller awaits fetch_with_retry (task 1) and then download_thumbnail
\* (task 2); the second call meets, attempt by attempt, the outcomes the
\* first one met.
InitPair ==
    /\ Start([t \in Tasks |-> IF t = 1 THEN "fetch_with_retry"
                              ELSE IF t = 2 THEN "download_thumbnail" ELSE "none"],
             [t \in Tasks |-> NoUrl], TickCoarse, MaxTimePair, Outcomes, TRUE)
    /\ NoCall /\ NoRepo

NextPair ==
    \/ Advance
    \/ \E t \in Tasks : apply_rate_limit(t)
    \/ \E t \in Tasks : FwCall(t)
    \/ \E t \in Tasks : fetch_with_retry(t)
    \/ \E t \in Tasks : pc[1] = "done" /\ download_thumbnail(t)

SpecPair == InitPair /\ [][NextPair]_vars

\* The URLs get_product_info is called with: a product page on the main
\* domain, one behind a language prefix on a shop's subdomain, a product path
\* on another host, a page of the main domain that is no product page, and a
\* string that is no URL.
Seg123 == <<"1", "2", "3">>
ProductUrl == Url(MAIN_DOMAIN, <<<<>>, ITEMS, Seg123>>)
ShopProductUrl == Url(<<"shop">> \o MAIN_DOMAIN, <<<<>>, <<"j", "a">>, ITEMS, Seg123>>)
OffDomainUrl == Url(<<"example", "com">>, <<<<>>, ITEMS, Seg123>>)
NoItemsUrl == Url(MAIN_DOMAIN, <<<<>>, <<"f", "a", "q">>>>)
InfoUrls == {ProductUrl, ShopProductUrl, OffDomainUrl, NoItemsUrl, NoUrl}

\* One task calls get_product_info with one of the URLs.
InitInfo ==
    /\ \E u \in InfoUrls :
        Start([t \in Tasks |-> IF t = 1 THEN "get_product_info" ELSE "none"],
              [t \in Tasks |-> u], TickCoarse, MaxTimeInfo, Outcomes, FALSE)
    /\ NoCall /\ NoRepo

NextInfo ==
    \/ Advance
    \/ \E t \in Tasks : apply_rate_limit(t)
    \/ \E t \in Tasks : fetch_with_retry(t)
    \/ \E t \in Tasks : get_product_info(t)

SpecInfo == InitInfo /\ [][NextInfo]_vars

\* The same call where every await returns: each request is answered, each
\* sleep ends and the executor polls a task that can run.  The clock goes on
\* when the task is in its call and waits for it, and the horizon leaves the
\* time for the call to end.
InitInfoFair ==
    /\ \E u \in InfoUrls :
        Start([t \in Tasks |-> IF t = 1 THEN "get_product_info" ELSE "none"],
              [t \in Tasks |-> u], TickCoarse, MaxTimePair, Outcomes, FALSE)
    /\ NoCall /\ NoRepo

InfoStep ==
    \/ \E t \in Tasks : apply_rate_limit(t)
    \/ \E t \in Tasks : fetch_with_retry(t)
    \/ \E t \in Tasks : get_product_info(t)

AdvanceInfo ==
    /\ \E t \in Tasks : Running(t)
    /\ ~ENABLED InfoStep
    /\ Advance

NextInfoFair ==
    \/ AdvanceInfo
    \/ \E t \in Tasks : apply_rate_limit(t)
    \/ \E t \in Tasks : fetch_with_retry(t)
    \/ \E t \in Tasks : get_product_info(t)

SpecInfoFair == InitInfoFair /\ [][NextInfoFair]_vars /\ WF_vars(NextInfoFair)

\* The parsers, the validators and the record builders, each applied once
\* to one input.  The client is not running and the repository is empty.
clientState == <<now, tick, horizon, served, last_request_time, mutex, paired, script,
                 op, url, stage, json_result, result, pc, attempt, last_error, wake,
                 resp, fetched, returned_at, trace, responses>>

ClientOff ==
    Start([t \in Tasks |-> "none"], [t \in Tasks |-> NoUrl], TickCoarse, 0, {}, FALSE)

\* The function c returns v.
Returns(c, v) ==
    /\ call = c
    /\ ret = None
    /\ ret' = Some(v)
    /\ UNCHANGED <<clientState, call, arg, repoVars>>

\* The sequences of 1 to n elements of a set, and those of 0 to n.
SeqsFrom1(S, n) == UNION {[1..k -> S] : k \in 1..n}
SeqsFrom0(S, n) == UNION {[1..k -> S] : k \in 0..n}

\* Texts of elements a tag selector matches: empty, one and two letters,
\* padded, excluded phrases, one and two kanji, and texts of 50 and 51
\* letters and of 16 and 17 kanji.
MaxElements == 3
Tag1 == <<"a", "b">>
Tag2 == <<"ka", "W">>
TagElementSamples ==
    { <<>>, <<"a">>, Tag1, <<" ">> \o Tag1 \o <<"\n">>, Tag2, Share, <<" ">> \o Share,
      <<"ka">>, <<"ka", "ki">>, Repeat("a", MAX_TAG_LEN), Repeat("a", MAX_TAG_LEN + 1),
      Repeat("ka", 16), Repeat("ka", 17) }
TagDocuments == SeqsFrom0(TagElementSamples, MaxElements)

\* URLs: a host and 1 to MaxSegments path segments after the leading slash.
MaxSegments == 4
SegmentSamples == {<<>>, ITEMS, Seg123, <<"j", "a">>, <<"-", "5">>, <<"1", "x">>}
HostSamples ==
    {MAIN_DOMAIN, <<"shop">> \o MAIN_DOMAIN, <<"example", "com">>, <<"notbooth", "pm">>}
UrlSamples ==
    {NoUrl} \cup {Url(h, <<<<>>>> \o p) :
                    h \in HostSamples, p \in SeqsFrom1(SegmentSamples, MaxSegments)}

\* Price strings: a prefix and up to MaxDigits characters.
PricePrefixes == {<<>>, <<"yen">>, <<"yen", " ">>, <<"\n">>, <<"-">>, <<"+">>}
PriceChars == {"0", "1", "2", ",", "x"}
PriceStrings == {p \o b : p \in PricePrefixes, b \in SeqsFrom0(PriceChars, MaxDigits)}

\* Titles "P - S - BOOTH": P is 1 to MaxWords words joined by " - ", S a word.
MaxWords == 3
Words == {<<"W">>, <<"K">>, BOOTH \o <<"K">>}
TitleParts == {[p |-> join(ws, SEP), s |-> w] : ws \in SeqsFrom1(Words, MaxWords), w \in Words}
TitleOf(parts) == parts.p \o SEP \o parts.s \o SEP \o BOOTH
TitleDocument(title) == Document(<<>>, <<>>, Some(title), <<>>, <<>>, <<>>, <<>>)

\* Bodies of the JSON endpoint that serde accepts.
PriceSamples ==
    {<<>>, <<"0">>, <<"0", "0">>, <<"x">>, <<"yen", " ", "1", ",", "2", "0", "0">>}
ImageSamples ==
    { <<>>,
      <<[resized |-> None, original |-> None]>>,
      <<[resized |-> None, original |-> Some(<<"o">>)]>>,
      <<[resized |-> Some(<<"r">>), original |-> Some(<<"o">>)]>> }
JsonTagSamples == {<<>>, <<Tag1>>, <<Tag1, Tag2>>, <<Tag1, Tag1>>, <<Share>>, <<<<"a">>>>}
JsonBodies ==
    {BoothJsonResponse(123, n, p, d, tg, im, sh) :
        n \in {<<>>, <<"W">>}, p \in PriceSamples, d \in {None, Some(<<"d">>)},
        tg \in JsonTagSamples, im \in ImageSamples, sh \in {<<>>, <<"S">>}}

\* Pages of the HTML path.
HtmlPages ==
    {Document(sh, pr, ti, pc_, de, th, tg) :
        sh \in {<<>>, <<<<"S">>>>, <<<<" ">>, <<"S">>>>},
        pr \in {<<>>, <<<<"W">>>>, <<BOOTH \o <<"K">>, <<"W">>>>, <<<<"S">>>>},
        ti \in {None, Some(BOOTH), Some(SEP \o BOOTH), Some(<<"W">> \o SEP \o BOOTH),
                Some(<<"W">> \o SEP \o <<"S">> \o SEP \o BOOTH)},
        pc_ \in {<<>>, <<<<"yen", "5", "0", "0">>>>, <<<<"x">>, <<"0">>>>},
        de \in {<<>>, <<<<"d">>>>},
        th \in {<<>>, <<<<>>, <<"u">>>>},
        tg \in {<<>>, <<Tag1, Tag1>>, <<Share, <<"ka">>>>, <<<<"a">>, Tag2>>}}

\* Pages for the product-name selectors: up to MaxElements selectors match,
\* with texts that are empty, blank, a name, the shop name bare and padded,
\* and texts holding "booth" in upper, lower and mixed case.
ProductTexts ==
    { <<>>, <<" ">>, <<"W">>, <<"S">>, <<" ", "S", "\n">>, BOOTH \o <<"K">>,
      <<"W">> \o booth_lower, <<"B", "o", "O", "t", "h">> }
ProductPages ==
    {Document(sh, pr, None, <<>>, <<>>, <<>>, <<>>) :
        sh \in {<<>>, <<<<"S">>>>, <<<<" ">>, <<"S", " ">>>>, <<<<"W">>, <<"S">>>>},
        pr \in SeqsFrom0(ProductTexts, MaxElements)}

Inputs(c) ==
    CASE c = "parse_tags" -> TagDocuments
      [] c = "validate_booth_url" -> UrlSamples
      [] c = "extract_product_id" -> UrlSamples \ {NoUrl}
      [] c = "parse_price_from_string" -> PriceStrings
      [] c = "title_fallback" -> TitleParts
      [] c = "json_record" -> JsonBodies
      [] c = "html_record" -> HtmlPages
      [] c = "parse_product_name" -> ProductPages

ParserCalls ==
    {"parse_tags", "validate_booth_url", "extract_product_id", "parse_price_from_string",
     "title_fallback", "json_record", "html_record", "parse_product_name"}

InitParsers ==
    /\ ClientOff
    /\ NoRepo
    /\ ret = None
    /\ \E c \in ParserCalls : call = c /\ arg \in Inputs(c)

ParseTagsCall == Returns("parse_tags", parse_tags(arg))
ValidateBoothUrlCall == Returns("validate_booth_url", validate_booth_url(arg))
ExtractProductIdCall == Returns("extract_product_id", extract_product_id(arg))
ParsePriceCall == Returns("parse_price_from_string", parse_price_from_string(arg))
TitleFallbackCall ==
    Returns("title_fallback",
            [shop |-> fallback_parse_shop_name(TitleDocument(TitleOf(arg))),
             product |-> fallback_parse_product_name(TitleDocument(TitleOf(arg)))])
JsonRecordCall == Returns("json_record", json_record(arg))
HtmlRecordCall == Returns("html_record", html_record(arg, 123))
ParseProductNameCall == Returns("parse_product_name", parse_product_name(arg))

NextParsers ==
    \/ ParseTagsCall
    \/ ValidateBoothUrlCall
    \/ ExtractProductIdCall
    \/ ParsePriceCall
    \/ TitleFallbackCall
    \/ JsonRecordCall
    \/ HtmlRecordCall
    \/ ParseProductNameCall

SpecParsers == InitParsers /\ [][NextParsers]_vars

\* ------------------------------------------------ SqliteFileTagRepository
\* The ids of the files and of the tags, the longest batch, and the value at
\* which the model stops incrementing a usage_count.
NumFiles == 3
NumTags == 2
MaxBatch == 2
MaxCount == 4
FileIds == 1..NumFiles
TagIds == 1..NumTags

\* The number of rows of file_tags that reference tag_id.
RowsOf(rows, tag_id) == Cardinality({r \in rows : r[2] = tag_id})

\* UPDATE tags SET usage_count = <usage_count> WHERE id = tag_id
UpdateUsageCount(tag_id, usage_count) ==
    tags' = [id \in DOMAIN tags |->
                IF id = tag_id THEN [tags[id] EXCEPT !.usage_count = usage_count]
                ELSE tags[id]]

\* MAX(0, x) of SQLite
MAX0(x) == IF x < 0 THEN 0 ELSE x

\* add_tag_to_file: INSERT OR IGNORE, then usage_count + 1.
AddTagToFile(file_id, tag_id) ==
    /\ tags[tag_id].usage_count < MaxCount
    /\ file_tags' = file_tags \cup {<<file_id, tag_id>>}
    /\ UpdateUsageCount(tag_id, tags[tag_id].usage_count + 1)
    /\ UNCHANGED <<clientState, callVars>>

\* remove_tag_from_file: DELETE, and usage_count - 1 when a row was deleted.
RemoveTagFromFile(file_id, tag_id) ==
    /\ file_tags' = file_tags \ {<<file_id, tag_id>>}
    /\ IF <<file_id, tag_id>> \in file_tags
       THEN UpdateUsageCount(tag_id, MAX0(tags[tag_id].usage_count - 1))
       ELSE UNCHANGED tags
    /\ UNCHANGED <<clientState, callVars>>

\* The files of a batch, as a set.
BatchFiles(file_ids) == {file_ids[i] : i \in 1..Len(file_ids)}

\* batch_add_tag_to_files: in one transaction, INSERT OR IGNORE for each
\* file, counting the rows inserted, then usage_count + added_count.
BatchAddTagToFiles(file_ids, tag_id) ==
    LET added_count == Cardinality({f \in BatchFiles(file_ids) : <<f, tag_id>> \notin file_tags})
    IN  /\ tags[tag_id].usage_count + added_count <= MaxCount
        /\ file_tags' = file_tags \cup {<<f, tag_id>> : f \in BatchFiles(file_ids)}
        /\ IF added_count > 0
           THEN UpdateUsageCount(tag_id, tags[tag_id].usage_count + added_count)
           ELSE UNCHANGED tags
        /\ UNCHANGED <<clientState, callVars>>

\* batch_remove_tag_from_files: in one transaction, DELETE for each file,
\* counting the rows deleted, then usage_count - removed_count.
BatchRemoveTagFromFiles(file_ids, tag_id) ==
    LET removed_count == Cardinality({f \in BatchFiles(file_ids) : <<f, tag_id>> \in file_tags})
    IN  /\ file_tags' = file_tags \ {<<f, tag_id>> : f \in BatchFiles(file_ids)}
        /\ IF removed_count > 0
           THEN UpdateUsageCount(tag_id, MAX0(tags[tag_id].usage_count - removed_count))
           ELSE UNCHANGED tags
        /\ UNCHANGED <<clientState, callVars>>

\* The row of a tag: the columns the repositories read and write.
Tag(name, color, usage_count) ==
    [name |-> name, color |-> color, usage_count |-> usage_count]

\* The tags the database starts with: tag 1 is "a", tag 2 is "b", ...
TagNameOf(id) == <<<<"a">>, <<"b">>, <<"d">>>>[id]
TEST_COLOR == "#9b59b6"

\* A consistent database: every tag exists and counts its rows.
InitRepo ==
    /\ ClientOff
    /\ NoCall
    /\ file_tags \in SUBSET (FileIds \X TagIds)
    /\ tags = [id \in TagIds |-> Tag(TagNameOf(id), TEST_COLOR, RowsOf(file_tags, id))]
    /\ tag_seq = NumTags

\* The calls of the file-tag repository, on the tags of the table.
NextRepo ==
    \/ \E f \in FileIds, t \in DOMAIN tags :
            AddTagToFile(f, t) /\ UNCHANGED tag_seq
    \/ \E f \in FileIds, t \in DOMAIN tags :
            RemoveTagFromFile(f, t) /\ UNCHANGED tag_seq
    \/ \E fs \in SeqsFrom0(FileIds, MaxBatch), t \in DOMAIN tags :
            BatchAddTagToFiles(fs, t) /\ UNCHANGED tag_seq
    \/ \E fs \in SeqsFrom0(FileIds, MaxBatch), t \in DOMAIN tags :
            BatchRemoveTagFromFiles(fs, t) /\ UNCHANGED tag_seq

SpecRepo == InitRepo /\ [][NextRepo]_vars

\* ---- The tag repository (repositories/tag_repository.rs) ----

MaxTagId == 3
ALTERNATIVE_DEFAULT_COLOR == "#3498db"

\* find_by_name: the row WHERE name = ?1, with its id (name is UNIQUE).
find_by_name(name) ==
    LET found == {id \in DOMAIN tags : tags[id].name = name}
    IN  IF found = {} THEN None
        ELSE LET id == CHOOSE i \in found : TRUE
             IN  Some([id |-> id] @@ tags[id])

\* insert: INSERT INTO tags; AUTOINCREMENT gives the row the next id.
insert(tag) ==
    /\ tag_seq' = tag_seq + 1
    /\ tags' = (tag_seq + 1 :> tag) @@ tags

\* recalculate_usage_count with a wrong write order: the unused tags are
\* deleted by the stored counts, before the counts are computed.
RecalculateAfterDelete ==
    LET kept == {id \in DOMAIN tags : tags[id].usage_count # 0}
    IN  /\ tags' = [id \in kept |->
                        [tags[id] EXCEPT !.usage_count = RowsOf(file_tags, id)]]
        /\ UNCHANGED <<file_tags, tag_seq, clientState, callVars>>

\* recalculate_usage_count: in one transaction, every count is set to 0,
\* then to COUNT(*) of the tag's rows of file_tags, then the tags with count
\* 0 are deleted.
RecalculateUsageCount ==
    LET reset == [id \in DOMAIN tags |-> [tags[id] EXCEPT !.usage_count = 0]]
        counted == [id \in DOMAIN reset |->
                       [reset[id] EXCEPT !.usage_count = RowsOf(file_tags, id)]]
        kept == {id \in DOMAIN counted : counted[id].usage_count # 0}
    IN  /\ tags' = [id \in kept |-> counted[id]]
        /\ UNCHANGED <<file_tags, tag_seq, clientState, callVars>>

\* get_or_create that writes the arguments over the tag it found.
GetOrCreateOverwrites(name, color) ==
    /\ tag_seq < MaxTagId \/ trim(name) = <<>> \/ IsSome(find_by_name(name))
    /\ call' = "get_or_create"
    /\ arg' = <<name, color>>
    /\ IF trim(name) = <<>>
       THEN /\ ret' = Some(Err("empty tag name"))
            /\ UNCHANGED <<tags, tag_seq>>
       ELSE LET new_tag == Tag(name, Unwrap(or_else(color, Some(ALTERNATIVE_DEFAULT_COLOR))), 0)
            IN  IF IsSome(find_by_name(name))
                THEN LET id == Unwrap(find_by_name(name)).id
                     IN  /\ tags' = [tags EXCEPT ![id] = new_tag]
                         /\ ret' = Some(Ok([id |-> id] @@ new_tag))
                         /\ UNCHANGED tag_seq
                ELSE /\ insert(new_tag)
                     /\ ret' = Some(Ok([id |-> tag_seq + 1] @@ new_tag))
    /\ UNCHANGED <<file_tags, clientState>>

\* get_or_create: a name that trims to nothing is an error; the tag of that
\* name is returned if there is one; else a tag of usage_count 0 and of the
\* given or the default color is inserted, read back and returned.
GetOrCreate(name, color) ==
    /\ tag_seq < MaxTagId \/ trim(name) = <<>> \/ IsSome(find_by_name(name))
    /\ call' = "get_or_create"
    /\ arg' = <<name, color>>
    /\ IF trim(name) = <<>>
       THEN /\ ret' = Some(Err("empty tag name"))
            /\ UNCHANGED <<tags, tag_seq>>
       ELSE IF IsSome(find_by_name(name))
       THEN /\ ret' = Some(Ok(Unwrap(find_by_name(name))))
            /\ UNCHANGED <<tags, tag_seq>>
       ELSE LET new_tag == Tag(name, Unwrap(or_else(color, Some(ALTERNATIVE_DEFAULT_COLOR))), 0)
            IN  /\ insert(new_tag)
                /\ ret' = Some(Ok([id |-> tag_seq + 1] @@ new_tag))
    /\ UNCHANGED <<file_tags, clientState>>

\* The names and colors get_or_create is called with.
TagNames == {<<>>, <<" ">>, <<"a">>, <<"c">>, <<" ", "c">>}
TagColors == {None, Some("#custom_color")}

\* Any database: each tag is on none, some or all of the files, and its
\* stored count (0, 1 or MaxCount) need not be the number of its rows.
InitTags ==
    /\ ClientOff
    /\ NoCall
    /\ \E files \in [TagIds -> 0..NumFiles] :
           file_tags = {r \in FileIds \X TagIds : r[1] <= files[r[2]]}
    /\ \E counts \in [TagIds -> {0, 1, MaxCount}] :
           tags = [id \in TagIds |-> Tag(TagNameOf(id), TEST_COLOR, counts[id])]
    /\ tag_seq = NumTags

\* The calls of the tag repository; the rows of file_tags are those the
\* database starts with.
NextTags ==
    \/ RecalculateUsageCount
    \/ \E name \in TagNames, color \in TagColors : GetOrCreate(name, color)

SpecTags == InitTags /\ [][NextTags]_vars

\* ------------------------------------------------------------ properties
Range(seq) == {seq[i] : i \in 1..Len(seq)}
Abs(x) == IF x < 0 THEN 0 - x ELSE x

\* C1: any two tasks' dispatches (their latest returns from apply_rate_limit)
\* are at least rate_limit_delay apart.
C1_DispatchesSeparated ==
    \A t, u \in Tasks :
        (t # u /\ IsSome(returned_at[t]) /\ IsSome(returned_at[u]))
        => Abs(Unwrap(returned_at[t]) - Unwrap(returned_at[u])) >= rate_limit_delay

\* C2: a return of apply_rate_limit in a task that has returned from it
\* before comes no earlier than that earlier return plus rate_limit_delay.
C2_SecondCallWaits ==
    [][\A t \in Tasks :
        (pc[t] = "rl_write" /\ pc'[t] # "rl_write" /\ IsSome(returned_at[t]))
        => now >= Unwrap(returned_at[t]) + rate_limit_delay]_vars

\* A task has returned from its second call while no other task has called.
C2_Witness ==
    \E t \in Tasks :
        /\ attempt[t] = 2
        /\ pc[t] = "dt_send"
        /\ \A u \in Tasks \ {t} : pc[u] = "call"

\* C3: no task holds the mutex outside the two blocks, so none holds it while
\* it sleeps, and while a task sleeps in apply_rate_limit the call it is in
\* has not yet written its timestamp.
C3_LockOnlyInBlocks ==
    /\ mutex = {}
    /\ \A t \in Tasks :
        pc[t] = "rl_sleeping"
        => Event("rate_limit", attempt[t], stage[t]) \notin Range(trace[t])

\* Two tasks sleep in apply_rate_limit at once, after one of them has
\* written a timestamp.
C3_Witness ==
    \E t, u \in Tasks :
        /\ t # u
        /\ pc[t] = "rl_sleeping"
        /\ pc[u] = "rl_sleeping"
        /\ IsSome(returned_at[t])

\* The positions of the requests and of the backoff sleeps in a trace.
Requests(tr) == {i \in 1..Len(tr) : tr[i].e = "request"}
Sleeps(tr) == {i \in 1..Len(tr) : tr[i].e = "sleep"}

IsPrefix(s, r) == Len(s) <= Len(r) /\ SubSeq(r, 1, Len(s)) = s

\* C4: whatever the attempts meet, a call of fetch_with_retry issues at most
\* MAX_RETRIES (3) requests, one per attempt, and the event just before each
\* request is the return of apply_rate_limit of the same attempt.
C4_BoundedRateLimitedRequests ==
    \A t \in Tasks :
        /\ Cardinality(Requests(trace[t])) <= MAX_RETRIES
        /\ \A i \in Requests(trace[t]) :
            /\ i > 1
            /\ trace[t][i - 1] = Event("rate_limit", trace[t][i].n, trace[t][i].stage)
            /\ \A j \in Requests(trace[t]) : i < j => trace[t][i].n < trace[t][j].n

\* A call has returned after three requests.
C4_Witness ==
    \E t \in Tasks :
        /\ pc[t] = "done"
        /\ Cardinality(Requests(trace[t])) = 3
        /\ { responses[t][i] : i \in 1..Len(responses[t]) } =
              { TransportFailure,
                [sent |-> TRUE, status |-> 200, readable |-> FALSE],
                [sent |-> TRUE, status |-> 429, readable |-> TRUE] }

Answer(status) == [sent |-> TRUE, status |-> status, readable |-> TRUE]
RateLimitedTwiceThenOk == <<Answer(429), Answer(429), Answer(200)>>

\* C5: while the server answers 429, 429, 200 the call does not return before
\* the third response; once it has met all three it returns the body of the
\* third, after exactly 3 requests and exactly 2 backoff sleeps.
C5_TwoBackoffsThenBody ==
    \A t \in Tasks :
        (op[t] = "fetch_with_retry" /\ IsPrefix(responses[t], RateLimitedTwiceThenOk))
        => IF responses[t] = RateLimitedTwiceThenOk
           THEN /\ pc[t] \in {"fw_text", "done"}
                /\ Cardinality(Requests(trace[t])) = 3
                /\ Cardinality(Sleeps(trace[t])) = 2
                /\ pc[t] = "done" => fetched[t] = Some(Success(3, 200, "text"))
           ELSE /\ pc[t] # "done"
                /\ fetched[t] = None

\* The call has returned after 429, 429, 200.
C5_Witness ==
    \E t \in Tasks : pc[t] = "done" /\ responses[t] = RateLimitedTwiceThenOk

\* A response that is neither a success nor a 429.
Definitive(o) == o.sent /\ ~(o.status >= 200 /\ o.status < 300) /\ o.status # 429

\* C6: a response with a non-success status other than 429 is the last one of
\* its call: the call has returned the HTTP error of that attempt, and the
\* request of that attempt is the last event of the call (no sleep, no
\* further rate limiting, no further request).
C6_DefinitiveStatusEndsCall ==
    \A t \in Tasks :
        \A i \in 1..Len(responses[t]) :
            Definitive(responses[t][i])
            => /\ i = Len(responses[t])
               /\ pc[t] = "done"
               /\ fetched[t] = Some(Failure("http", i, responses[t][i].status))
               /\ Cardinality(Requests(trace[t])) = i
               /\ trace[t][Len(trace[t])] = Event("request", i, stage[t])

\* A 500 at the third attempt, after a 429 and a transport failure.
C6_Witness ==
    \E t \in Tasks :
        /\ pc[t] = "done"
        /\ responses[t] = <<Answer(429), TransportFailure, Answer(500)>>

\* An outcome after which the loop goes on, and the error recorded for it.
Retryable(o) == ~o.sent \/ o.status = 429 \/ (o.status >= 200 /\ o.status < 300 /\ ~o.readable)
ErrorOf(o, a) ==
    IF ~o.sent THEN Failure("network", a, 0)
    ELSE IF o.status = 429 THEN Failure("rate_limited", a, 429)
    ELSE Failure("read", a, o.status)

\* C7: a call whose three attempts each met a retryable failure returns the
\* error recorded for the third attempt.
C7_LastErrorReturned ==
    \A t \in Tasks :
        ( /\ op[t] = "fetch_with_retry"
          /\ pc[t] = "done"
          /\ Len(responses[t]) = 3
          /\ \A i \in 1..3 : Retryable(responses[t][i]) )
        => fetched[t] = Some(ErrorOf(responses[t][3], 3))

\* A call has returned after three retryable failures of three kinds, the
\* last one an unreadable body.
C7_Witness ==
    \E t \in Tasks :
        /\ pc[t] = "done"
        /\ responses[t] = <<TransportFailure, Answer(429),
                            [sent |-> TRUE, status |-> 200, readable |-> FALSE]>>

\* How a call ended: with a body, a terminal HTTP error, or exhausted with
\* the error of an attempt.
OutcomeClass(f) ==
    [ok |-> f.ok, kind |-> f.kind, attempt |-> f.attempt, status |-> f.status]

\* C8: served the outcomes fetch_with_retry (task 1) met, download_thumbnail
\* (task 2) goes through the same rate-limit returns, requests and backoff
\* sleeps in the same order, and ends in the same outcome class.
C8_SameProtocol ==
    /\ IsPrefix(trace[2], trace[1])
    /\ (pc[1] = "done" /\ pc[2] = "done")
       => /\ trace[2] = trace[1]
          /\ responses[2] = responses[1]
          /\ OutcomeClass(Unwrap(fetched[2])) = OutcomeClass(Unwrap(fetched[1]))

\* Both calls have returned after three attempts that ended with a
\* transport failure.
C8_Witness ==
    /\ pc[1] = "done"
    /\ pc[2] = "done"
    /\ Len(responses[2]) = 3
    /\ responses[2][3] = TransportFailure

\* C9: a call of get_product_info is in the HTML path exactly when its
\* structured fetch has failed.  After a structured success the call has
\* returned the JSON record and has requested no HTML page; after a structured
\* failure the result comes from the HTML path (the JSON error is not
\* returned), and it is the HTML record when the page fetched has the names.
C9_FallbackIffStructuredFailed ==
    \A t \in Tasks :
        /\ stage[t] = "html" <=> (IsSome(json_result[t]) /\ ~Unwrap(json_result[t]).ok)
        /\ (IsSome(json_result[t]) /\ Unwrap(json_result[t]).ok)
           => /\ pc[t] = "done"
              /\ result[t] = Some(Resolved("json"))
              /\ \A i \in 1..Len(trace[t]) : trace[t][i].stage = "json"
        /\ (pc[t] = "done" /\ IsSome(json_result[t]) /\ ~Unwrap(json_result[t]).ok)
           => /\ Unwrap(result[t]).source = "html"
              /\ (IsSome(fetched[t]) /\ Unwrap(fetched[t]).content = "html_named")
                 => result[t] = Some(Resolved("html"))

\* The JSON endpoint answered 404 and the HTML page gave the record.
C9_Witness ==
    \E t \in Tasks :
        /\ pc[t] = "done"
        /\ json_result[t] = Some(Failure("http", 1, 404))
        /\ result[t] = Some(Resolved("html"))

\* C10: a call of get_product_info with a string that is no URL, or with a
\* URL whose host is neither booth.pm nor a subdomain of it, issues no
\* request, and when it has returned it has returned an input error.
C10_NoRequestForBadUrl ==
    \A t \in Tasks :
        (op[t] = "get_product_info" /\ (~url[t].parsed \/ ~is_valid_booth_url(url[t])))
        => /\ Requests(trace[t]) = {}
           /\ pc[t] = "done"
              => /\ ~Unwrap(result[t]).ok
                 /\ Unwrap(result[t]).error \in {"url_parse", "invalid_booth_url"}

\* The run has built a record, by the JSON path or by the HTML path.
RecordReturned ==
    call \in {"json_record", "html_record"} /\ IsSome(ret) /\ Unwrap(ret).ok

\* C11: every record returned has a shop_name and a product_name that are
\* not the empty string.
C11_NamesNeverEmpty ==
    RecordReturned
    => /\ Unwrap(ret).record.shop_name # <<>>
       /\ Unwrap(ret).record.product_name # <<>>

\* C12: in every record returned, by either path, is_free is true exactly
\* when the price is absent or is 0.
C12_IsFreeMatchesPrice ==
    RecordReturned
    => (Unwrap(ret).record.is_free
        <=> (Unwrap(ret).record.price = None \/ Unwrap(ret).record.price = Some(0)))

\* The JSON path has returned a record whose price is 0 and that is free.
C12_Witness ==
    /\ call = "json_record"
    /\ IsSome(ret)
    /\ Unwrap(ret).record.price = Some(0)
    /\ Unwrap(ret).record.is_free

\* A tag sequence is clean: no entry twice, no excluded phrase, and every
\* entry of 2 to 50 characters once trimmed.
CleanTags(tag_names) ==
    /\ \A i, j \in 1..Len(tag_names) : i # j => tag_names[i] # tag_names[j]
    /\ \A i \in 1..Len(tag_names) :
        /\ tag_names[i] \notin excluded_texts
        /\ Len(trim(tag_names[i])) >= 2
        /\ Len(trim(tag_names[i])) <= 50

\* C13: the tags of every record returned, by either path, are clean.
C13_RecordTagsClean ==
    RecordReturned => CleanTags(Unwrap(ret).record.tags)

\* The trimmed, non-empty texts of a sequence of elements.
RECURSIVE TrimmedTexts(_)
TrimmedTexts(elements) ==
    IF elements = <<>> THEN <<>>
    ELSE <<trim(Head(elements))>> \o TrimmedTexts(Tail(elements))

\* The position at which a text is first seen among the elements.
FirstSeen(elements, text) ==
    CHOOSE i \in 1..Len(elements) :
        /\ TrimmedTexts(elements)[i] = text
        /\ \A j \in 1..(i - 1) : TrimmedTexts(elements)[j] # text

\* C14: for every document the tags parse_tags returns are clean, each is
\* the trimmed text of an element, and they come in first-seen order.
C14_ParseTagsClean ==
    (call = "parse_tags" /\ IsSome(ret))
    => LET found == Unwrap(ret) IN
       /\ CleanTags(found)
       /\ \A i \in 1..Len(found) : \E k \in 1..Len(arg) : trim(arg[k]) = found[i]
       /\ \A i, j \in 1..Len(found) :
            i < j => FirstSeen(arg, found[i]) < FirstSeen(arg, found[j])

\* A non-empty segment of ASCII digits only, and one that may have a sign.
DigitChars == {"0", "1", "2", "3", "4", "5", "6", "7", "8", "9"}
AllDigits(seg) == seg # <<>> /\ \A i \in 1..Len(seg) : seg[i] \in DigitChars
IntegerLiteral(seg) ==
    \/ AllDigits(seg)
    \/ seg # <<>> /\ seg[1] \in {"+", "-"} /\ AllDigits(Tail(seg))

\* The host is booth.pm or a name that ends with .booth.pm.
BoothHost(u) ==
    /\ Len(u.host) >= 2
    /\ u.host[Len(u.host) - 1] = "booth"
    /\ u.host[Len(u.host)] = "pm"

\* C15: validate_booth_url returns true exactly for the URLs that parse, have
\* a BOOTH host, and have somewhere in their path a segment "items" directly
\* followed by a non-empty segment of ASCII digits.
C15_ValidatorMatchesShape ==
    (call = "validate_booth_url" /\ IsSome(ret))
    => (Unwrap(ret)
        <=> /\ arg.parsed
            /\ BoothHost(arg)
            /\ \E i \in 1..(Len(arg.path) - 1) :
                   arg.path[i] = ITEMS /\ AllDigits(arg.path[i + 1]))

C17_PriceParsed ==
    /\ (call = "parse_price_from_string" /\ IsSome(ret))
       => LET rest == trim(SelectSeq(arg, LAMBDA c : c \notin {"yen", ",", " "}))
          IN  IF rest = <<>> \/ rest = <<"0">> THEN Unwrap(ret) = None
              ELSE IF AllDigits(rest) THEN Unwrap(ret) = Some(DigitsValue(rest))
              ELSE IF IntegerLiteral(rest) THEN IsSome(Unwrap(ret))
              ELSE Unwrap(ret) = None
    /\ (call = "json_record" /\ IsSome(ret))
       => /\ Unwrap(ret).ok
          /\ arg.price \in {<<>>, <<"0">>, <<"x">>} => Unwrap(ret).record.price = None
          /\ arg.price = <<"yen", " ", "1", ",", "2", "0", "0">>
             => Unwrap(ret).record.price = Some(1200)

\* The string "yen 1,200" has given 1200.
C17_Witness ==
    /\ call = "parse_price_from_string"
    /\ arg = <<"yen", " ", "1", ",", "2", "0", "0">>
    /\ ret = Some(Some(1200))

\* C18: for a title "P - S - BOOTH" the shop fallback gives S and the product
\* fallback gives P.
C18_TitleFallback ==
    (call = "title_fallback" /\ IsSome(ret))
    => /\ Unwrap(ret).shop = Some(arg.s)
       /\ Unwrap(ret).product = Some(arg.p)

\* C19: the HTML path returns a record exactly when a shop name and a product
\* name are found; a field that is not found is None in it (the tags: empty);
\* the errors are those of the two names.
C19_OptionalFieldsDegrade ==
    (call = "html_record" /\ IsSome(ret))
    => LET shop == or_else(parse_shop_name(arg), fallback_parse_shop_name(arg))
           product == or_else(parse_product_name(arg), fallback_parse_product_name(arg))
           r == Unwrap(ret)
       IN  /\ r.ok <=> (IsSome(shop) /\ IsSome(product))
           /\ r.ok => /\ r.record.shop_name = Unwrap(shop)
                      /\ r.record.product_name = Unwrap(product)
                      /\ arg.price = <<>> => r.record.price = None
                      /\ arg.description = <<>> => r.record.description = None
                      /\ arg.thumbnail = <<>> => r.record.thumbnail_url = None
                      /\ arg.tags = <<>> => r.record.tags = <<>>
           /\ ~r.ok => r.error \in {"shop_name_not_found", "product_name_not_found"}

\* A page with the two names and nothing else has given a record.
C19_Witness ==
    /\ call = "html_record"
    /\ arg.price = <<>> /\ arg.description = <<>> /\ arg.thumbnail = <<>> /\ arg.tags = <<>>
    /\ IsSome(ret)
    /\ Unwrap(ret).ok
    /\ Unwrap(ret).record.price = None
    /\ Unwrap(ret).record.tags = <<>>

\* C20: every tag's usage_count is the number of rows of file_tags that
\* reference the tag.
C20_UsageCountMatchesRows ==
    \A id \in DOMAIN tags : tags[id].usage_count = RowsOf(file_tags, id)

\* C21: a step of recalculate_usage_count, from any state of the tables,
\* leaves file_tags as it was, keeps exactly the tags that have a row in
\* file_tags, and gives each of them the number of its rows, at least 1, as
\* usage_count.
C21_RecalculateRestoresCounts ==
    [][RecalculateUsageCount =>
        /\ file_tags' = file_tags
        /\ DOMAIN tags' = {id \in DOMAIN tags : RowsOf(file_tags, id) > 0}
        /\ \A id \in DOMAIN tags' :
              /\ tags'[id].usage_count = RowsOf(file_tags', id)
              /\ tags'[id].usage_count >= 1]_vars

\* A tag has been deleted, a tag that has rows remains with their number as
\* its count, and no remaining tag is without rows.
C21_Witness ==
    /\ \E id \in 1..tag_seq : id \notin DOMAIN tags
    /\ \E id \in DOMAIN tags : tags[id].usage_count = RowsOf(file_tags, id)
    /\ \A id \in DOMAIN tags : RowsOf(file_tags, id) >= 1

\* C22: a step of get_or_create(name, color) leaves the table as it was and
\* returns an error when the name trims to nothing; leaves the table as it
\* was and returns the stored row when a tag has that name; and otherwise
\* adds exactly one row, of that name, of usage_count 0 and of the given
\* color (the default color when none is given), and returns it.
C22_GetOrCreateIdempotent ==
    [][\A name \in TagNames, color \in TagColors :
        GetOrCreate(name, color) =>
            LET same == {id \in DOMAIN tags : tags[id].name = name}
                added == DOMAIN tags' \ DOMAIN tags
            IN  IF trim(name) = <<>>
                THEN tags' = tags /\ ~ret'[1].ok
                ELSE IF same # {}
                THEN /\ tags' = tags
                     /\ ret'[1].ok
                     /\ \E id \in same : ret'[1].record = [id |-> id] @@ tags[id]
                ELSE /\ Cardinality(added) = 1
                     /\ DOMAIN tags \subseteq DOMAIN tags'
                     /\ \A id \in DOMAIN tags : tags'[id] = tags[id]
                     /\ \A id \in added :
                           /\ tags'[id].name = name
                           /\ tags'[id].usage_count = 0
                           /\ tags'[id].color =
                                 (IF color = None THEN "#3498db" ELSE color[1])
                           /\ ret'[1].ok
                           /\ ret'[1].record = [id |-> id] @@ tags'[id]]_vars

\* get_or_create was given a color and the name of a tag in use, and
\* returned the tag with the color and the count it had.
C22_Witness ==
    /\ call = "get_or_create"
    /\ arg[2] = Some("#custom_color")
    /\ ret[1].ok
    /\ ret[1].record.color = TEST_COLOR
    /\ ret[1].record.usage_count > 0
    /\ ret[1].record.id \in DOMAIN tags
    /\ tags[ret[1].record.id] = [x \in {"name", "color", "usage_count"} |-> ret[1].record[x]]

\* The place in the trace tr of the request of attempt n (0: not issued).
RequestAt(tr, n) ==
    IF \E i \in Requests(tr) : tr[i].n = n
    THEN CHOOSE i \in Requests(tr) : tr[i].n = n
    ELSE 0

\* A success status whose body cannot be read.
Unreadable == [sent |-> TRUE, status |-> 200, readable |-> FALSE]

\* C23: in both retry loops, the event after the request of an attempt that
\* met a transport failure is a sleep of 500 ms after attempt 1 and of 1000 ms
\* after attempt 2; after attempt 3 there is no event: the request is the
\* last event of the call, which has returned the network error.
C23_NetworkBackoff ==
    \A t \in Tasks : \A n \in 1..Len(responses[t]) :
        responses[t][n] = TransportFailure
        => LET r == RequestAt(trace[t], n)
           IN  /\ r > 0
               /\ n = 1 => Len(trace[t]) > r /\ trace[t][r + 1].e = "sleep"
                                             /\ trace[t][r + 1].n = 500
               /\ n = 2 => Len(trace[t]) > r /\ trace[t][r + 1].e = "sleep"
                                             /\ trace[t][r + 1].n = 1000
               /\ n = 3 => /\ Len(trace[t]) = r
                           /\ pc[t] = "done"
                           /\ fetched[t] = Some(Failure("network", 3, 0))

\* Both calls have returned after three transport failures, each having
\* slept 500 ms and 1000 ms and nothing else.
C23_Witness ==
    \A t \in {1, 2} :
        /\ pc[t] = "done"
        /\ responses[t] = <<TransportFailure, TransportFailure, TransportFailure>>
        /\ [i \in 1..2 |-> trace[t][RequestAt(trace[t], i) + 1].n] = <<500, 1000>>
        /\ Cardinality(Sleeps(trace[t])) = 2

\* C24: in both retry loops, the event after the request of an attempt that
\* met a 429 is a sleep of 1000 ms after attempt 1, 2000 ms after attempt 2
\* and 4000 ms after attempt 3; after attempt 3 that sleep is the last event
\* of the call, which returns the rate-limit error once it is over, and it
\* does not return while that sleep lasts.
C24_RateLimitBackoff ==
    \A t \in Tasks : \A n \in 1..Len(responses[t]) :
        responses[t][n] = Answer(429)
        => LET r == RequestAt(trace[t], n)
           IN  /\ r > 0
               /\ Len(trace[t]) > r
               /\ trace[t][r + 1].e = "sleep"
               /\ trace[t][r + 1].n = <<1000, 2000, 4000>>[n]
               /\ n = 3 => /\ Len(trace[t]) = r + 1
                           /\ pc[t] \in {"fw_backoff_429", "dt_backoff_429", "done"}
                           /\ pc[t] = "done" =>
                                 fetched[t] = Some(Failure("rate_limited", 3, 429))
                           /\ pc[t] # "done" => fetched[t] = None /\ wake[t] >= 4000

\* Both calls have returned after three 429s and sleeps of 1000, 2000 and
\* 4000 ms.
C24_Witness ==
    \A t \in {1, 2} :
        /\ pc[t] = "done"
        /\ responses[t] = <<Answer(429), Answer(429), Answer(429)>>
        /\ [i \in 1..3 |-> trace[t][RequestAt(trace[t], i) + 1].n] = <<1000, 2000, 4000>>

\* C25: in fetch_with_retry, after the request of an attempt whose body could
\* not be read comes no sleep: the next event, if any, is the rate limiting
\* of the next attempt.  The call does not return before it has made three
\* attempts, the error recorded when the next attempt begins is the read
\* error, and after the third attempt the call returns the read error.
C25_ReadErrorNoBackoff ==
    \A t \in Tasks : \A n \in 1..Len(responses[t]) :
        (op[t] = "fetch_with_retry" /\ responses[t][n] = Unreadable)
        => LET r == RequestAt(trace[t], n)
           IN  /\ r > 0
               /\ Len(trace[t]) > r =>
                     /\ n < 3
                     /\ trace[t][r + 1].e = "rate_limit"
                     /\ trace[t][r + 1].n = n + 1
               /\ (n < 3 /\ pc[t] = "done") => Len(responses[t]) > n
               /\ (attempt[t] = n + 1 /\ Len(responses[t]) = n)
                     => last_error[t] = Some(Failure("read", n, 200))
               /\ (n = 3 /\ pc[t] = "done")
                     => fetched[t] = Some(Failure("read", 3, 200))

\* fetch_with_retry has returned the read error of its third attempt after
\* three unreadable bodies, three requests and no sleep.
C25_Witness ==
    /\ op[1] = "fetch_with_retry"
    /\ pc[1] = "done"
    /\ responses[1] = <<Unreadable, Unreadable, Unreadable>>
    /\ Cardinality(Requests(trace[1])) = 3
    /\ Sleeps(trace[1]) = {}
    /\ fetched[1] = Some(Failure("read", 3, 200))

\* C27: neither retry loop returns the generic "Max retries exceeded" error.
\* Once an attempt is over and the next one has begun an error is recorded,
\* and a call that has returned an error returns the error of one of its
\* attempts: the HTTP error of the last request, or the error recorded for
\* the third attempt.
C27_MaxRetriesUnreachable ==
    \A t \in Tasks :
        /\ fetched[t] # Some(Failure("max_retries", 0, 0))
        /\ (attempt[t] > 1 /\ pc[t] # "done") => IsSome(last_error[t])
        /\ (pc[t] = "done" /\ IsSome(fetched[t]) /\ ~Unwrap(fetched[t]).ok)
             => /\ Unwrap(fetched[t]).kind \in {"http", "network", "rate_limited", "read"}
                /\ Unwrap(fetched[t]).attempt = Len(responses[t])
                /\ Unwrap(fetched[t]).kind # "http"
                     => Len(responses[t]) = 3 /\ last_error[t] = fetched[t]

\* Both loops have ended without a return from inside: three attempts, the
\* last with an unreadable body, and the error returned is the recorded one.
C27_Witness ==
    \A t \in {1, 2} :
        /\ pc[t] = "done"
        /\ Len(responses[t]) = 3
        /\ responses[t][3] = Unreadable
        /\ ~Unwrap(fetched[t]).ok
        /\ last_error[t] = fetched[t]

\* The text holds the letters b, o, o, t, h in a row, each in either case.
HoldsBooth(text) ==
    \E i \in 1..(Len(text) - 4) :
        \A k \in 1..5 : text[i + k - 1] \in {booth_lower[k], BOOTH[k]}

\* The candidate is empty once trimmed, names the marketplace, or is the
\* shop name the selectors found.
RejectedName(text, shop_name) ==
    trim(text) = <<>> \/ HoldsBooth(trim(text)) \/ Some(trim(text)) = shop_name

\* C26: parse_product_name returns the trimmed text of the first element, in
\* selector order, that is not empty, does not hold "booth" in any case and
\* is not the shop name the shop selectors give; every element before it is
\* empty or rejected; and it returns None exactly when every element is.
C26_ProductNameFiltered ==
    (call = "parse_product_name" /\ IsSome(ret))
    => LET found == Unwrap(ret)
           shop_name == parse_shop_name(arg)
           texts == arg.product
       IN  IF \A i \in 1..Len(texts) : RejectedName(texts[i], shop_name)
           THEN found = None
           ELSE /\ IsSome(found)
                /\ ~HoldsBooth(Unwrap(found))
                /\ found # shop_name
                /\ \E i \in 1..Len(texts) :
                      /\ Unwrap(found) = trim(texts[i])
                      /\ ~RejectedName(texts[i], shop_name)
                      /\ \A j \in 1..(i - 1) : RejectedName(texts[j], shop_name)

\* The third selector gave the name, after one whose text holds "Booth" and
\* one whose text is the shop name with padding.
C26_Witness ==
    /\ call = "parse_product_name"
    /\ arg.shop = <<<<" ">>, <<"S", " ">>>>
    /\ arg.product = <<<<"B", "o", "O", "t", "h">>, <<" ", "S", "\n">>, <<"W">>>>
    /\ ret = Some(Some(<<"W">>))

\* The requests of a trace made in stage st.
RequestsIn(tr, st) == {i \in Requests(tr) : tr[i].stage = st}

\* At most 3 requests to the JSON endpoint, then at most 3 for the HTML page,
\* these only after the JSON path has failed; a call that has returned has a
\* result.
WithinSixRequests ==
    \A t \in Tasks :
        op[t] = "get_product_info"
        => /\ Cardinality(RequestsIn(trace[t], "json")) <= 3
           /\ Cardinality(RequestsIn(trace[t], "html")) <= 3
           /\ Cardinality(Requests(trace[t])) <= 6
           /\ \A i \in RequestsIn(trace[t], "json"), j \in RequestsIn(trace[t], "html") : i < j
           /\ RequestsIn(trace[t], "html") # {}
                => IsSome(json_result[t]) /\ ~Unwrap(json_result[t]).ok
           /\ pc[t] = "done" => IsSome(result[t])

\* C28: where every request is answered and every sleep ends, a call of
\* get_product_info returns, with a record or with an error, and it never
\* makes more than 3 requests to the JSON endpoint followed, only after the
\* JSON path has failed, by at most 3 requests for the HTML page.
C28_TerminatesWithinSixRequests ==
    /\ []WithinSixRequests
    /\ \A t \in Tasks : op[t] = "get_product_info" => <>(pc[t] = "done")

\* A call has returned after 3 requests to the JSON endpoint and 3 for the
\* HTML page.
C28_Witness ==
    \E t \in Tasks :
        /\ pc[t] = "done"
        /\ Cardinality(RequestsIn(trace[t], "json")) = 3
        /\ Cardinality(RequestsIn(trace[t], "html")) = 3

\* C29: for a URL validate_booth_url accepts, extract_product_id finds an
\* id, and it is the number written by the segment after the first "items"
\* segment of the path.
C29_ValidatorExtractorAgree ==
    (call = "extract_product_id" /\ IsSome(ret) /\ validate_booth_url(arg))
    => /\ IsSome(Unwrap(ret))
       /\ \E i \in 1..(Len(arg.path) - 1) :
             /\ arg.path[i] = ITEMS
             /\ \A j \in 1..(i - 1) : arg.path[j] # ITEMS
             /\ AllDigits(arg.path[i + 1])
             /\ Unwrap(ret) = Some(DigitsValue(arg.path[i + 1]))

\* The task is inside apply_rate_limit.
InRateLimit(t) == pc[t] \in {"rl_read", "rl_sleeping", "rl_write"}

\* A call of apply_rate_limit sleeps only straight after its first block,
\* for no longer than rate_limit_delay, and goes from the sleep to its
\* second block, after which it returns.
SleepsAtMostOnce ==
    \A t \in Tasks :
        /\ (pc[t] # "rl_sleeping" /\ pc'[t] = "rl_sleeping")
             => /\ pc[t] = "rl_read"
                /\ wake'[t] - now <= rate_limit_delay
                /\ wake'[t] - now > 0
        /\ (pc[t] = "rl_sleeping" /\ pc'[t] # "rl_sleeping") => pc'[t] = "rl_write"
        /\ (pc[t] = "rl_write" /\ pc'[t] # "rl_write") => ~InRateLimit(t)'

\* C30: with concurrent callers and a fair scheduler, every call of
\* apply_rate_limit returns, and it sleeps at most once, for no longer than
\* rate_limit_delay.
C30_RateLimitReturns ==
    /\ [][SleepsAtMostOnce]_vars
    /\ \A t \in Tasks : InRateLimit(t) ~> ~InRateLimit(t)

\* Every task has returned from its first call of apply_rate_limit, one of
\* them a full rate_limit_delay or more after another.
C30_Witness ==
    /\ \A t \in Tasks : IsSome(returned_at[t]) /\ ~InRateLimit(t)
    /\ \E t, u \in Tasks :
          /\ t # u
          /\ Unwrap(returned_at[t]) >= Unwrap(returned_at[u]) + rate_limit_delay
          /\ attempt[t] = 1
          /\ attempt[u] = 1
====
